---- MODULE Spec2Model ----
(***************************************************************************)
(* A model of the agent control loop of jarranpedersenfreelance/Agent.     *)
(*                                                                         *)
(* The repository holds several generations of the agent.  They are        *)
(* modelled here each under its own specification, and the file handlers,  *)
(* the dispatcher and the prompt builder are also modelled on their own:   *)
(*                                                                         *)
(*   Spec      the Memory-based loop (core/brain/memory.py,                *)
(*             core/brain/reason.py, core/execution/action_handler.py,     *)
(*             core/definitions/models.py).  AgentCore.run of that         *)
(*             generation is not among the sources; RunTop, RunPop,        *)
(*             RunReason and RunExec follow the written specification.     *)
(*   SpecCore  the manager-based loop (core/execution/task_manager.py,     *)
(*             core/data_management/memory_manager.py,                     *)
(*             core/resource_manager.py, core/reasoning_integration.py).   *)
(*             Its AgentCore.run and ActionHandler.handle_action are       *)
(*             known only through tests/test_agent_core.py and             *)
(*             tests/test_action_handler.py.                               *)
(*   SpecFiles the path check of core/resource_manager.py, the file        *)
(*             handlers of core/execution/action_handler.py and the write  *)
(*             branch of agent_core.py, on one path.                       *)
(*   SpecDispatch  exec_action of core/execution/action_handler.py called  *)
(*             with any action on any memory.                              *)
(*   SpecLive  Spec under weak fairness of the loop's steps.               *)
(*   SpecPrompt  Gemini._build_context_prompt of core/brain/reason.py,     *)
(*             built for one Reason action over two memories.              *)
(*   SpecCycle the cycle-based agent of core/agent_core.py: run_cycle      *)
(*             with its slumber check, called again and again.             *)
(***************************************************************************)
EXTENDS Integers, Sequences, FiniteSets, TLC

\* ------------------------------------------------------------------ bounds

\* AGENT.MAX_REASON_STEPS, the per-run ceiling on handled Reason actions.
MaxReasonSteps == 3

\* AGENT.MAX_REASONING_STEPS, the daily allowance of reasoning steps.
MaxReasoningSteps == 2

\* The last day the wall clock reaches.
MaxDay == 1

\* The longest file_path argument, in characters.
MaxPathLen == 3

\* The file actions executed in one run.
MaxFileSteps == 1

\* Calls of the dispatcher on its own.
MaxDispatchSteps == 2

\* The number of run_cycle calls of the cycle-based agent that are followed.
MaxCycles == 6

\* ------------------------------------------------------------- vocabulary

StartingTask == "t1"
DebugTask == "debug"
Tasks == {"t1", "t2"}
Labels == {"l1"}

\* core/definitions/models.py: the action variants, with their defaults.
\* id and via are history fields: id numbers the enqueue operations in the
\* order they happen, via tells whether the action entered the queue at the
\* back (add_action, add_actions) or at the front (prepend_action).
BaseAction(type) ==
    [type |-> type, task |-> "", todo_type |-> "NONE", todo_item |-> "",
     label |-> "", thought |-> "", delete |-> FALSE, module |-> "",
     tool_class |-> "", id |-> 0, via |-> "back"]

ReasonAction(task) == [BaseAction("REASON") EXCEPT !.task = task]

ThinkAction(label, thought, delete) ==
    [BaseAction("THINK") EXCEPT !.label = label, !.thought = thought,
                                !.delete = delete]

UpdateToDoAction(todo_type, todo_item) ==
    [BaseAction("UPDATE_TODO") EXCEPT !.todo_type = todo_type,
                                      !.todo_item = todo_item]

RunToolAction(module, tool_class) ==
    [BaseAction("RUN_TOOL") EXCEPT !.module = module, !.tool_class = tool_class]

NoOpAction == BaseAction("NO_OP")

TerminateAction == BaseAction("TERMINATE")

SlumberAction == BaseAction("SLUMBER")

\* Python's None where an action is expected.
NoneAction == BaseAction("NONE")

\* An action without its history fields.
Plain(a) == [a EXCEPT !.id = 0, !.via = "back"]

PlainSeq(s) == [i \in DOMAIN s |-> Plain(s[i])]

Last(s) == s[Len(s)]

Front(s) == SubSeq(s, 1, Len(s) - 1)

\* Number the actions of s from n on, entering at the back.
Stamp(s, n) == [i \in DOMAIN s |-> [s[i] EXCEPT !.id = n + i - 1, !.via = "back"]]

\* --------------------------------------------------------------- variables

VARIABLES
    pc,            \* where AgentCore.run stands: "top", "pop", "dispatch", "done"
    run_state,     \* "RUNNING" or "TERMINATED"
    exit_reason,   \* why run() returned: "none", "terminate", "ceiling", "empty"
    action_queue,  \* Mem.action_queue
    todo,          \* Mem.todo
    counters,      \* Mem.counters[Count.REASON]
    thoughts,      \* Mem.thoughts, a function from the labels present to text
    mem_file,      \* the memory file as memorize last wrote it
    cur,           \* the action popped in this iteration
    active_task,   \* the task of the Reason action handled last
    next_id,       \* history: the number the next enqueue operation gets
    last_new,      \* history: what the reasoning adapter returned last
    last_pop_id,   \* history: id of the last back-entered action popped
    n_pops,        \* history: pop_action calls that returned an action
    n_dispatch     \* history: actions handed to RunDispatch

loopVars == <<pc, run_state, exit_reason, action_queue, todo, counters,
              thoughts, mem_file, cur, active_task, next_id, last_new,
              last_pop_id, n_pops, n_dispatch>>

VARIABLES
    today,             \* date.today(), as a day number
    rm_file,           \* the resource state file (YAML)
    rm_resources,      \* ResourceManager.resources
    rm_last_run_date,  \* ResourceManager.last_run_date
    mm_file,           \* the memory file of MemoryManager (JSON)
    mm_action_queue,   \* MemoryManager.memory['action_queue']
    tm_queue,          \* TaskManager.queue
    tm_aliased,        \* TaskManager.queue is the list object held by memory
    c_pc,              \* the process: "down", "loop", "handle", "exited"
    c_cur,             \* the action dequeued in this iteration
    ri_calls,          \* history: get_next_actions calls in this process
    ri_last_arg,       \* history: the argument of the last such call
    c_last_resp,       \* history: the last raw response of the service
    rm_boot,           \* history: the state file and date at construction
    c_quota_stop,      \* history: a Reason action met an exhausted quota
    rm_steps,          \* history: reasoning steps recorded by this process
    ri_event,          \* history: the event the last get_next_actions recorded
    c_pops,            \* history: actions dequeued by this process
    c_handled          \* history: handle_action calls of this process

coreVars == <<today, rm_file, rm_resources, rm_last_run_date, mm_file,
              mm_action_queue, tm_queue, tm_aliased, c_pc, c_cur, ri_calls,
              ri_last_arg, c_last_resp, rm_boot, c_quota_stop, rm_steps,
              ri_event, c_pops, c_handled>>

VARIABLES
    f_pc,       \* "init", "checked", "ran"
    f_path,     \* the file_path argument, a string of characters
    f_safe,     \* what is_file_path_safe answered for f_path
    f_act,      \* the file action executed last
    f_disk,     \* the files on disk: absolute path -> content
    f_cache,    \* the in-memory file-content cache: path -> content
    f_raised,   \* the last handler raised
    f_obs,      \* the observation the last handler returned
    f_touched,  \* history: the last handler called into the filesystem
    f_steps     \* history: file actions executed

fileVars == <<f_pc, f_path, f_safe, f_act, f_disk, f_cache, f_raised, f_obs,
              f_touched, f_steps>>

VARIABLES
    d_mem,      \* the Memory the handler holds: action_queue, todo, thoughts
    d_act,      \* the action dispatched last
    d_raised,   \* exec_action raised
    d_log,      \* what the last dispatch wrote to the log
    d_tool,     \* the tool class the last dispatch instantiated and ran
    d_steps     \* history: actions dispatched

dispatchVars == <<d_mem, d_act, d_raised, d_log, d_tool, d_steps>>

VARIABLES
    p_mem1,     \* a Memory: action_queue, file_contents, thoughts
    p_mem2,     \* a second Memory, built into a prompt side by side
    p_act,      \* the Reason action the prompts were built for
    p_out1,     \* _build_context_prompt over p_mem1
    p_out2,     \* _build_context_prompt over p_mem2
    p_built     \* the two prompts have been built

promptVars == <<p_mem1, p_mem2, p_act, p_out1, p_out2, p_built>>

VARIABLES
    y_agent,    \* ScionAgent: cycle_count, is_slumbering, slumber_until_cycle
    y_planned,  \* the action string the last full cycle got and executed
    y_kind,     \* what the last run_cycle did: "none", "skip", "full"
    y_reasons,  \* history: calls of GeminiClient.reason
    y_acts,     \* history: calls of ActionHandler.execute_action
    y_from,     \* history: the cycle in which the last SLUMBER took effect
    y_n         \* history: the number of cycles it asked for, at least 1

cycleVars == <<y_agent, y_planned, y_kind, y_reasons, y_acts, y_from, y_n>>

vars == <<loopVars, coreVars, fileVars, dispatchVars, promptVars, cycleVars>>

\* ------------------------------------------------- core/brain/memory.py

\* Memory.reset_actions
Memory_reset_actions(start_task) == <<ReasonAction(start_task)>>

\* Memory.empty_actions
Memory_empty_actions(q) == <<>>

\* Memory.pop_action with the removal forgotten: the head is read, not popped.
Memory_pop_action_peek(q) ==
    IF q = <<>> THEN [ret |-> NoneAction, q |-> q]
    ELSE [ret |-> Head(q), q |-> q]

\* Memory.pop_action: the action and the queue left.
Memory_pop_action(q) ==
    IF q = <<>> THEN [ret |-> NoneAction, q |-> q]
    ELSE [ret |-> Head(q), q |-> Tail(q)]

\* Memory.pop_last_action popping the wrong end (list.pop(0) for list.pop()).
Memory_pop_last_action_first(q) ==
    IF q = <<>> THEN [ret |-> NoneAction, q |-> q]
    ELSE [ret |-> Head(q), q |-> Tail(q)]

\* Memory.pop_last_action
Memory_pop_last_action(q) ==
    IF q = <<>> THEN [ret |-> NoneAction, q |-> q]
    ELSE [ret |-> Last(q), q |-> Front(q)]

\* Memory.add_action
Memory_add_action(q, a) == Append(q, a)

\* Memory.prepend_action appending instead of inserting at index 0.
Memory_prepend_action_back(q, a) == Append(q, a)

\* Memory.prepend_action
Memory_prepend_action(q, a) == <<a>> \o q

\* Memory.add_actions inserting each action at the front instead of extending.
Memory_add_actions_front(q, actions) ==
    [i \in 1..Len(actions) |-> actions[Len(actions) + 1 - i]] \o q

\* Memory.add_actions
Memory_add_actions(q, actions) == IF actions # <<>> THEN q \o actions ELSE q

\* Memory.remove_todo popping the last item instead of the first.
Memory_remove_todo_last(t) ==
    IF t = <<>> THEN [raised |-> TRUE, todo |-> t]
    ELSE [raised |-> FALSE, todo |-> Front(t)]

\* Memory.remove_todo absorbing the request on an empty list.
Memory_remove_todo_absorbing(t) ==
    IF t = <<>> THEN [raised |-> FALSE, todo |-> t]
    ELSE [raised |-> FALSE, todo |-> Tail(t)]

\* Memory.remove_todo: list.pop(0) raises IndexError on an empty list.
Memory_remove_todo(t) ==
    IF t = <<>> THEN [raised |-> TRUE, todo |-> t]
    ELSE [raised |-> FALSE, todo |-> Tail(t)]

\* Memory.add_todo
Memory_add_todo(t, item) == Append(t, item)

\* Memory.add_immediate_todo appending instead of inserting at index 0.
Memory_add_immediate_todo_back(t, item) == Append(t, item)

\* Memory.add_immediate_todo
Memory_add_immediate_todo(t, item) == <<item>> \o t

\* Memory.inc_count returning the count without adding to it.
Memory_inc_count_stuck(c) == c

\* Memory.inc_count
Memory_inc_count(c) == c + 1

\* Memory.set_thought replacing the whole mapping by the one entry.
Memory_set_thought_fresh(th, label, thought) ==
    [l \in {label} |-> thought]

\* Memory.set_thought
Memory_set_thought(th, label, thought) ==
    [l \in DOMAIN th \cup {label} |-> IF l = label THEN thought ELSE th[l]]

\* Memory.remove_thought clearing the whole scratchpad.
Memory_remove_thought_all(th, label) == [l \in {} |-> ""]

\* Memory.remove_thought
Memory_remove_thought(th, label) == [l \in DOMAIN th \ {label} |-> th[l]]

\* What json_dump writes for a Mem (Mem.model_dump): the fields kept here.
MemDump(q, t, c, th) ==
    [action_queue |-> q, todo |-> t, counters |-> c, thoughts |-> th]

\* Memory.memorize returning before the dump, as it does for a mock memory.
Memory_memorize_skip(mock, file, q, t, c, th) == file

\* Memory.memorize: a mock memory is not saved to disk.
Memory_memorize(mock, file, q, t, c, th) ==
    IF mock THEN file ELSE MemDump(q, t, c, th)

\* Memory.__init__ on the memory file f: the queue after construction.
Memory_init_queue(f) ==
    IF f.action_queue = <<>> THEN Memory_reset_actions(StartingTask)
    ELSE f.action_queue

\* ------------------------------------ core/execution/action_handler.py

\* ActionHandler._handle_update_todo
handle_update_todo(a, t) ==
    CASE a.todo_type = "APPEND" ->
            [raised |-> FALSE, todo |-> Memory_add_todo(t, a.todo_item)]
      [] a.todo_type = "INSERT" ->
            [raised |-> FALSE, todo |-> Memory_add_immediate_todo(t, a.todo_item)]
      [] a.todo_type = "REMOVE" -> Memory_remove_todo(t)
      [] OTHER -> [raised |-> FALSE, todo |-> t]

\* ActionHandler._handle_think: deleting a label that is not there raises.
handle_think(a, th) ==
    IF a.delete
    THEN IF a.label \notin DOMAIN th
         THEN [raised |-> TRUE, thoughts |-> th]
         ELSE [raised |-> FALSE, thoughts |-> Memory_remove_thought(th, a.label)]
    ELSE [raised |-> FALSE, thoughts |-> Memory_set_thought(th, a.label, a.thought)]

\* The action types ActionHandler has a _handle_<type> method for.
Handled == {"NO_OP", "THINK", "RUN_TOOL", "UPDATE_TODO", "READ_FILE",
            "WRITE_FILE", "DELETE_FILE", "SLUMBER"}

\* ActionHandler._handle_unknown raising instead of logging.
handle_unknown_raising(a, t, th) ==
    [raised |-> TRUE, todo |-> t, thoughts |-> th, log |-> "none",
     tool |-> ""]

\* ActionHandler._handle_unknown: an error line in the log, nothing else.
handle_unknown(a, t, th) ==
    [raised |-> FALSE, todo |-> t, thoughts |-> th, log |-> "error",
     tool |-> ""]

\* ---- core/execution/toolbox.py

\* AGENT.TOOL_OUTPUT_THOUGHT, the label the output of a tool is kept under.
TOOL_OUTPUT_THOUGHT == "tool_output"

\* The modules importlib can import.
ToolModules == {"tools"}

\* What the attributes of the module are: subclasses of Tool with the
\* string their run returns, a subclass whose run raises, a class that is
\* no Tool, an attribute that is no class, and an attribute that is None.
ToolOutputs == [T1 |-> "o1", T2 |-> "o2"]

ModuleAttrs == DOMAIN ToolOutputs \cup {"Boom", "Other", "value", "nothing"}

\* ToolBox.run_tool running whatever class the attribute is.
ToolBox_run_tool_unchecked(module_str, tool_class, th) ==
    IF module_str \notin ToolModules \/ tool_class \notin ModuleAttrs
    THEN [raised |-> TRUE, thoughts |-> th, tool |-> ""]
    ELSE IF tool_class \in DOMAIN ToolOutputs
    THEN [raised |-> FALSE,
          thoughts |-> Memory_set_thought(th, TOOL_OUTPUT_THOUGHT,
                                          ToolOutputs[tool_class]),
          tool |-> tool_class]
    ELSE [raised |-> FALSE,
          thoughts |-> Memory_set_thought(th, TOOL_OUTPUT_THOUGHT, ""),
          tool |-> tool_class]

\* ToolBox.run_tool: import_module raises for an unknown module, getattr
\* for a missing attribute, issubclass for an attribute that is no class;
\* a class that is no Tool, or a None, is refused with ValueError. tool
\* is the class that was instantiated and run, if any.
ToolBox_run_tool(module_str, tool_class, th) ==
    IF module_str \notin ToolModules THEN [raised |-> TRUE, thoughts |-> th, tool |-> ""]
    ELSE IF tool_class \notin ModuleAttrs
    THEN [raised |-> TRUE, thoughts |-> th, tool |-> ""]
    ELSE IF tool_class \in {"value", "nothing", "Other"}
    THEN [raised |-> TRUE, thoughts |-> th, tool |-> ""]
    ELSE IF tool_class = "Boom"
    THEN [raised |-> TRUE, thoughts |-> th, tool |-> tool_class]
    ELSE [raised |-> FALSE,
          thoughts |-> Memory_set_thought(th, TOOL_OUTPUT_THOUGHT,
                                          ToolOutputs[tool_class]),
          tool |-> tool_class]

\* ActionHandler._handle_run_tool
handle_run_tool(a, th) == ToolBox_run_tool(a.module, a.tool_class, th)

\* ActionHandler.exec_action: the handler is chosen by the action's type; a
\* type without a handler goes to _handle_unknown. log is what the handler
\* wrote to the log: an action line, an error line, or nothing.
\* A dispatcher whose THINK handler also drops the first todo item.
exec_action_think_resizes(a, t, th) ==
    IF a.type = "THINK"
    THEN [raised |-> FALSE, todo |-> IF t = <<>> THEN t ELSE Tail(t),
          thoughts |-> th, log |-> "action", tool |-> ""]
    ELSE [raised |-> FALSE, todo |-> t, thoughts |-> th, log |-> "action",
          tool |-> ""]

exec_action(a, t, th) ==
    IF a.type \notin Handled THEN handle_unknown(a, t, th)
    ELSE CASE a.type = "UPDATE_TODO" ->
                LET r == handle_update_todo(a, t)
                IN  [raised |-> r.raised, todo |-> r.todo, thoughts |-> th,
                     log |-> IF a.todo_type = "NONE" \/ r.raised
                             THEN "none" ELSE "action",
                     tool |-> ""]
          [] a.type = "THINK" ->
                LET r == handle_think(a, th)
                IN  [raised |-> r.raised, todo |-> t, thoughts |-> r.thoughts,
                     log |-> "action", tool |-> ""]
          [] a.type = "RUN_TOOL" ->
                LET r == handle_run_tool(a, th)
                IN  [raised |-> r.raised, todo |-> t, thoughts |-> r.thoughts,
                     log |-> "action", tool |-> r.tool]
          [] a.type = "SLUMBER" ->
                [raised |-> FALSE, todo |-> t, thoughts |-> th, log |-> "none",
                 tool |-> ""]
          [] OTHER ->
                [raised |-> FALSE, todo |-> t, thoughts |-> th, log |-> "action",
                 tool |-> ""]

\* ------------------------------------------------- core/brain/reason.py

\* What the call to the reasoning service can come to: an APIError, a
\* response without text, a response that fails GeminiResponse validation,
\* or a validated action list.
Plans ==
    { <<>>,
      <<ReasonAction("t2")>>,
      <<NoOpAction, ReasonAction("t1")>>,
      <<NoOpAction>>,
      <<UpdateToDoAction("REMOVE", ""), NoOpAction, ReasonAction("t2")>>,
      <<UpdateToDoAction("INSERT", "t2"), ReasonAction("t1")>>,
      <<UpdateToDoAction("APPEND", "t2"), ReasonAction("t2")>>,
      <<ThinkAction("l1", "x", FALSE), ReasonAction("t2")>>,
      <<ThinkAction("l1", "", TRUE), ReasonAction("t1")>>,
      <<TerminateAction, ReasonAction("t1")>> }

Responses ==
    { [kind |-> k, actions |-> <<>>] : k \in {"api_error", "none_text", "invalid"} }
    \cup { [kind |-> "ok", actions |-> p] : p \in Plans }

\* Gemini.get_next_actions, after the prompt is built.
Gemini_get_next_actions(current_action, resp) ==
    CASE resp.kind = "api_error" ->
            [raised |-> FALSE, actions |-> <<SlumberAction, current_action>>]
      [] resp.kind = "invalid" -> [raised |-> TRUE, actions |-> <<>>]
      [] resp.kind = "ok" /\ resp.actions # <<>> ->
            [raised |-> FALSE, actions |-> resp.actions]
      [] OTHER -> [raised |-> FALSE, actions |-> <<>>]

\* Reason.get_next_actions: any exception becomes an empty list.
Reason_get_next_actions(current_action, resp) ==
    LET r == Gemini_get_next_actions(current_action, resp)
    IN  IF r.raised THEN <<>> ELSE r.actions

\* ------------------------------------------------------ AgentCore.run

\* Production memory: constructed with mock = False.
Mock == FALSE

\* The memory files the process may start from: none written yet, or one a
\* previous run left.
InitQueues ==
    { <<>>,
      <<ReasonAction("t2")>>,
      <<NoOpAction, ReasonAction("t1")>>,
      <<UpdateToDoAction("REMOVE", ""), NoOpAction, ReasonAction("t2")>> }

InitTodos == { <<>>, <<"t1">>, <<"t1", "t2">> }

\* The synthetic debug Reason action, entering at the front.
DebugAction(n) == [ReasonAction(DebugTask) EXCEPT !.id = n, !.via = "front"]

\* The termination rewrite: keep the most recently queued action, drop the
\* rest, push Terminate, re-append the kept action.
TerminateRewrite(q, n) ==
    LET r  == Memory_pop_last_action(q)
        q1 == Memory_empty_actions(r.q)
        q2 == Memory_add_action(q1, [TerminateAction EXCEPT !.id = n])
    IN  IF r.ret = NoneAction THEN q2
        ELSE Memory_add_action(q2, [r.ret EXCEPT !.id = n + 1, !.via = "back"])

\* The recovery both for an invalid reasoning response and for an exception
\* out of a handler: a debug Reason action at the front of the queue.
DebugRecovery(q, n) == Memory_prepend_action(q, DebugAction(n))

InitLoop ==
    \E q0 \in InitQueues, t0 \in InitTodos :
        LET q == Stamp(Memory_init_queue([action_queue |-> q0]), 1)
        IN  /\ action_queue = q
            /\ todo = t0
            /\ counters = 0
            /\ thoughts = <<>>
            /\ mem_file = Memory_memorize(Mock, MemDump(q0, t0, 0, <<>>),
                                          q, t0, 0, <<>>)
            /\ next_id = Len(q) + 1
            /\ pc = "top"
            /\ run_state = "RUNNING"
            /\ exit_reason = "none"
            /\ cur = NoneAction
            /\ active_task = StartingTask
            /\ last_new = <<>>
            /\ last_pop_id = 0
            /\ n_pops = 0
            /\ n_dispatch = 0

\* Top of an iteration: persist, then the termination precondition.
RunTop ==
    /\ pc = "top"
    /\ mem_file' = Memory_memorize(Mock, mem_file, action_queue, todo,
                                   counters, thoughts)
    /\ IF todo = <<>>
       THEN /\ action_queue' = TerminateRewrite(action_queue, next_id)
            /\ next_id' = next_id + 2
       ELSE UNCHANGED <<action_queue, next_id>>
    /\ pc' = "pop"
    /\ UNCHANGED <<run_state, exit_reason, todo, counters, thoughts, cur,
                   active_task, last_new, last_pop_id, n_pops, n_dispatch>>

\* Pop the next action; Terminate, or an empty queue, ends the loop.
RunPop ==
    /\ pc = "pop"
    /\ LET r == Memory_pop_action(action_queue)
       IN  /\ action_queue' = r.q
           /\ IF r.ret = NoneAction
              THEN /\ pc' = "done"
                   /\ run_state' = "TERMINATED"
                   /\ exit_reason' = "empty"
                   /\ UNCHANGED <<cur, n_pops, last_pop_id>>
              ELSE /\ n_pops' = n_pops + 1
                   /\ last_pop_id' = IF r.ret.via = "back" THEN r.ret.id
                                     ELSE last_pop_id
                   /\ IF r.ret.type = "TERMINATE"
                      THEN /\ pc' = "done"
                           /\ run_state' = "TERMINATED"
                           /\ exit_reason' = "terminate"
                           /\ cur' = cur
                      ELSE /\ pc' = "dispatch"
                           /\ cur' = r.ret
                           /\ UNCHANGED <<run_state, exit_reason>>
    /\ UNCHANGED <<todo, counters, thoughts, mem_file, active_task, next_id,
                   last_new, n_dispatch>>

\* A Reason action: count the step, stop at the ceiling, else consult the
\* reasoning adapter and enqueue what it returned.
RunReason ==
    /\ pc = "dispatch"
    /\ cur.type = "REASON"
    /\ n_dispatch' = n_dispatch + 1
    /\ counters' = Memory_inc_count(counters)
    /\ active_task' = cur.task
    /\ IF counters' > MaxReasonSteps
       THEN /\ pc' = "done"
            /\ run_state' = "TERMINATED"
            /\ exit_reason' = "ceiling"
            /\ UNCHANGED <<action_queue, todo, next_id, last_new>>
       ELSE /\ \E resp \in Responses :
                LET new == Reason_get_next_actions(cur, resp)
                IN  /\ last_new' = new
                    /\ IF new = <<>> \/ Last(new).type # "REASON"
                       THEN /\ action_queue' = DebugRecovery(action_queue, next_id)
                            /\ todo' = Memory_add_immediate_todo(todo, cur.task)
                            /\ next_id' = next_id + 1
                       ELSE /\ action_queue' =
                                  Memory_add_actions(action_queue, Stamp(new, next_id))
                            /\ next_id' = next_id + Len(new)
                            /\ todo' = todo
            /\ pc' = "top"
            /\ UNCHANGED <<run_state, exit_reason>>
    /\ UNCHANGED <<thoughts, mem_file, cur, last_pop_id, n_pops>>

\* Any other action goes to the dispatcher; an exception out of it is
\* caught and becomes the debug recovery.
RunExec ==
    /\ pc = "dispatch"
    /\ cur.type # "REASON"
    /\ n_dispatch' = n_dispatch + 1
    /\ LET r == exec_action(cur, todo, thoughts)
       IN  /\ thoughts' = r.thoughts
           /\ IF r.raised
              THEN /\ action_queue' = DebugRecovery(action_queue, next_id)
                   /\ todo' = Memory_add_immediate_todo(r.todo, active_task)
                   /\ next_id' = next_id + 1
              ELSE /\ todo' = r.todo
                   /\ UNCHANGED <<action_queue, next_id>>
    /\ pc' = "top"
    /\ UNCHANGED <<run_state, exit_reason, counters, mem_file, cur,
                   active_task, last_new, last_pop_id, n_pops>>

Next ==
    \/ (RunTop /\ UNCHANGED <<coreVars, fileVars, dispatchVars, promptVars,
                              cycleVars>>)
    \/ (RunPop /\ UNCHANGED <<coreVars, fileVars, dispatchVars, promptVars,
                              cycleVars>>)
    \/ (RunReason /\ UNCHANGED <<coreVars, fileVars, dispatchVars, promptVars,
                                 cycleVars>>)
    \/ (RunExec /\ UNCHANGED <<coreVars, fileVars, dispatchVars, promptVars,
                               cycleVars>>)

\* ------------------------------------------ the queue-in-memory generation
\* Actions of this generation carry a type and a payload dictionary.

Action(type, payload) == [type |-> type, payload |-> payload]

NoAction == Action("NONE", [none |-> "none"])

ReadFile == Action("READ_FILE", [file_path |-> "x"])

WriteFile == Action("WRITE_FILE", [file_path |-> "y"])

\* json_dump / json_load of the memory file: every action object becomes a
\* JSON object, a pair of its type and its payload, and back.
JsonDump(q) == [i \in 1..Len(q) |-> <<q[i].type, q[i].payload>>]

JsonLoad(f) == [i \in 1..Len(f) |-> Action(f[i][1], f[i][2])]

\* MemoryManager.memorize: the memory dictionary overwrites the file.
MemoryManager_memorize(st) == [st EXCEPT !.file = JsonDump(st.memory)]

\* An in-place change of the list TaskManager.queue refers to; the memory
\* dictionary sees it only while it holds that same list object.
ListMutate(st, q) ==
    [st EXCEPT !.queue = q,
               !.memory = IF st.aliased THEN q ELSE st.memory]

TaskManager_get_default_queue == <<Action("REASON", [task |-> StartingTask])>>

\* TaskManager.__init__ over a freshly loaded MemoryManager: an empty queue
\* is replaced by REBINDING self.queue to a new list, which the memory
\* dictionary does not hold.
TaskManager_init(file) ==
    LET mem == JsonLoad(file)
        st  == [queue |-> mem, memory |-> mem, aliased |-> TRUE, file |-> file]
    IN  IF st.queue = <<>>
        THEN MemoryManager_memorize(
                 [st EXCEPT !.queue = TaskManager_get_default_queue,
                            !.aliased = FALSE])
        ELSE st

\* TaskManager.dequeue_action answering an empty queue with the default
\* action instead of None.
TaskManager_dequeue_action_never_none(st) ==
    IF st.queue = <<>>
    THEN [ret |-> Head(TaskManager_get_default_queue), st |-> st]
    ELSE [ret |-> Head(st.queue),
          st  |-> MemoryManager_memorize(ListMutate(st, Tail(st.queue)))]

\* TaskManager.dequeue_action answering an empty queue with None but
\* putting the default queue back and saving.
TaskManager_dequeue_action_refill(st) ==
    IF st.queue = <<>>
    THEN [ret |-> NoAction,
          st  |-> MemoryManager_memorize(
                      [st EXCEPT !.queue = TaskManager_get_default_queue,
                                 !.memory = TaskManager_get_default_queue])]
    ELSE [ret |-> Head(st.queue),
          st  |-> MemoryManager_memorize(ListMutate(st, Tail(st.queue)))]

TaskManager_dequeue_action(st) ==
    IF st.queue = <<>>
    THEN [ret |-> NoAction, st |-> st]
    ELSE [ret |-> Head(st.queue),
          st  |-> MemoryManager_memorize(ListMutate(st, Tail(st.queue)))]

TaskManager_add_action(st, action) ==
    MemoryManager_memorize(ListMutate(st, Append(st.queue, action)))

TaskManager_add_actions_front(st, actions) ==
    IF actions # <<>>
    THEN MemoryManager_memorize(ListMutate(st, actions \o st.queue))
    ELSE st

TaskManager_add_actions(st, actions) ==
    IF actions # <<>>
    THEN MemoryManager_memorize(ListMutate(st, st.queue \o actions))
    ELSE st

\* ---- ResourceManager
\* A stored date is None, a date object, or a string that does or does not
\* parse as an ISO date.
NoDate == [kind |-> "none", day |-> 0]

Date(d) == [kind |-> "date", day |-> d]

DateStr(d) == [kind |-> "str", day |-> d]

BadStr == [kind |-> "badstr", day |-> 0]

\* dict.get(key, default)
DictGet(d, key, default) == IF key \in DOMAIN d THEN d[key] ELSE default

DictSet(d, key, value) ==
    [k \in DOMAIN d \cup {key} |-> IF k = key THEN value ELSE d[k]]

\* yaml_safe_dump / yaml_safe_load: a date object is written as a YAML
\* timestamp scalar, a string as a quoted string, an integer as an integer.
YamlScalar(key, v) ==
    IF key = "last_run_date"
    THEN [tag |-> IF v.kind = "date" THEN "timestamp"
                  ELSE IF v.kind = "none" THEN "null" ELSE "str",
          v |-> v]
    ELSE [tag |-> "int", v |-> v]

yaml_safe_dump(resources) ==
    [exists |-> TRUE,
     doc |-> [k \in DOMAIN resources |-> YamlScalar(k, resources[k])]]

yaml_safe_load(file) == [k \in DOMAIN file.doc |-> file.doc[k].v]

NoFile == [exists |-> FALSE, doc |-> [none |-> [tag |-> "null", v |-> 0]]]

EmptyDict == [k \in {} |-> 0]

\* _load_state: a missing file is a new run, the empty dictionary.
ResourceManager_load_state(file) ==
    IF file.exists THEN yaml_safe_load(file) ELSE EmptyDict

\* set_resource: assign, then save the whole state.
ResourceManager_set_resource(st, key, value) ==
    LET r == DictSet(st.resources, key, value)
    IN  [st EXCEPT !.resources = r, !.file = yaml_safe_dump(r)]

\* date.fromisoformat, None on ValueError
FromIsoFormat(v) == IF v.kind = "str" THEN Date(v.day) ELSE NoDate

ResourceManager_check_daily_reset_known_date(st, day) ==
    LET lrd == IF st.last_run_date.kind \in {"str", "badstr"}
               THEN FromIsoFormat(st.last_run_date)
               ELSE st.last_run_date
        s1  == [st EXCEPT !.last_run_date = lrd]
    IN  IF lrd.kind # "none" /\ day > lrd.day
        THEN ResourceManager_set_resource(
                 ResourceManager_set_resource(s1, "daily_reasoning_count",
                                              st.max_reasoning_steps),
                 "last_run_date", Date(day))
        ELSE ResourceManager_set_resource(s1, "last_run_date", Date(day))

ResourceManager_check_daily_reset_same_day(st, day) ==
    LET lrd == IF st.last_run_date.kind \in {"str", "badstr"}
               THEN FromIsoFormat(st.last_run_date)
               ELSE st.last_run_date
        s1  == [st EXCEPT !.last_run_date = lrd]
    IN  IF lrd.kind = "none" \/ day >= lrd.day
        THEN ResourceManager_set_resource(
                 ResourceManager_set_resource(s1, "daily_reasoning_count",
                                              st.max_reasoning_steps),
                 "last_run_date", Date(day))
        ELSE ResourceManager_set_resource(s1, "last_run_date", Date(day))

ResourceManager_check_daily_reset(st, day) ==
    LET lrd == IF st.last_run_date.kind \in {"str", "badstr"}
               THEN FromIsoFormat(st.last_run_date)
               ELSE st.last_run_date
        s1  == [st EXCEPT !.last_run_date = lrd]
    IN  IF lrd.kind = "none" \/ day > lrd.day
        THEN ResourceManager_set_resource(
                 ResourceManager_set_resource(s1, "daily_reasoning_count",
                                              st.max_reasoning_steps),
                 "last_run_date", Date(day))
        ELSE ResourceManager_set_resource(s1, "last_run_date", Date(day))

ResourceManager_init(file, day) ==
    LET r == ResourceManager_load_state(file)
    IN  ResourceManager_check_daily_reset(
            [resources |-> r,
             last_run_date |-> DictGet(r, "last_run_date", NoDate),
             max_reasoning_steps |-> MaxReasoningSteps,
             file |-> file],
            day)

ResourceManager_get_daily_reasoning_count(st) ==
    DictGet(st.resources, "daily_reasoning_count", 0)

ResourceManager_record_reasoning_step_free(st) ==
    LET current_count == ResourceManager_get_daily_reasoning_count(st)
    IN  IF current_count >= 0
        THEN [ret |-> TRUE,
              st  |-> ResourceManager_set_resource(
                          st, "daily_reasoning_count",
                          IF current_count > 0 THEN current_count - 1 ELSE 0)]
        ELSE [ret |-> FALSE, st |-> st]

ResourceManager_record_reasoning_step_no_decrement(st) ==
    LET current_count == ResourceManager_get_daily_reasoning_count(st)
    IN  IF current_count > 0
        THEN [ret |-> TRUE,
              st  |-> ResourceManager_set_resource(
                          st, "daily_reasoning_count", current_count)]
        ELSE [ret |-> FALSE, st |-> st]

ResourceManager_record_reasoning_step(st) ==
    LET current_count == ResourceManager_get_daily_reasoning_count(st)
    IN  IF current_count > 0
        THEN [ret |-> TRUE,
              st  |-> ResourceManager_set_resource(
                          st, "daily_reasoning_count", current_count - 1)]
        ELSE [ret |-> FALSE, st |-> st]

\* ---- ReasoningIntegration
\* The text of a response is a sequence of pieces: an optional opening
\* fence, the body, an optional closing fence. A body is a JSON array of
\* items or is not JSON (a fence is not JSON either); an item does or does
\* not validate as an Action.
Item(valid, action) == [valid |-> valid, action |-> action]

JsonArray(items) == [kind |-> "body", json |-> TRUE, items |-> items]

NotJson == [kind |-> "body", json |-> FALSE, items |-> <<>>]

\* The markdown fence lines, three backquotes followed by json and three
\* backquotes alone.
JsonFence == [kind |-> "fence_json", json |-> FALSE, items |-> <<>>]

Fence == [kind |-> "fence", json |-> FALSE, items |-> <<>>]

Fenced(body) == <<JsonFence, body, Fence>>

HalfFenced(body) == <<JsonFence, body>>

Bare(body) == <<body>>

\* raw_json_text[7:-3] over the pieces: the opening and closing fence go.
StripFence(text) == SubSeq(text, 2, Len(text) - 1)

ReasoningIntegration_get_next_actions_always_strip(resp) ==
    IF resp.api_error THEN <<>>
    ELSE LET raw  == resp.text
             text == StripFence(raw)
         IN  IF Len(text) # 1 \/ ~ text[1].json
             THEN <<>>
             ELSE IF \E i \in 1..Len(text[1].items) : ~ text[1].items[i].valid
                  THEN <<>>
                  ELSE [i \in 1..Len(text[1].items) |-> text[1].items[i].action]

\* get_next_actions: strip a json fence when the text both starts and ends
\* with one, parse, validate every item; any failure gives the empty list.
ReasoningIntegration_get_next_actions(resp) ==
    IF resp.api_error THEN <<>>
    ELSE LET raw  == resp.text
             text == IF Head(raw) = JsonFence /\ Last(raw) = Fence
                     THEN StripFence(raw) ELSE raw
         IN  IF Len(text) # 1 \/ ~ text[1].json
             THEN <<>>
             ELSE IF \E i \in 1..Len(text[1].items) : ~ text[1].items[i].valid
                  THEN <<>>
                  ELSE [i \in 1..Len(text[1].items) |-> text[1].items[i].action]

\* get_next_actions: the event its except clauses hand to add_event, by
\* what failed: validation, the JSON parse, or anything else; a response
\* that parses and validates records nothing.
ReasoningIntegration_event(resp) ==
    IF resp.api_error THEN "api"
    ELSE LET raw  == resp.text
             text == IF Head(raw) = JsonFence /\ Last(raw) = Fence
                     THEN StripFence(raw) ELSE raw
         IN  IF Len(text) # 1 \/ ~ text[1].json
             THEN "json"
             ELSE IF \E i \in 1..Len(text[1].items) : ~ text[1].items[i].valid
                  THEN "validation"
                  ELSE "none"

NextReason == Action("REASON", [task |-> "t2"])

NoTaskReason == Action("REASON", [not_a_task |-> "missing key"])

Ok(items) == [i \in 1..Len(items) |-> Item(TRUE, items[i])]

CoreBodies ==
    { JsonArray(Ok(<<ReadFile, NextReason>>)),
      JsonArray(Ok(<<NextReason>>)),
      JsonArray(Ok(<<ReadFile>>)),
      JsonArray(Ok(<<ReadFile, WriteFile>>)),
      JsonArray(Ok(<<NextReason, ReadFile>>)),
      JsonArray(Ok(<<ReadFile, NoTaskReason>>)),
      JsonArray(<<>>),
      JsonArray(<<Item(TRUE, ReadFile), Item(FALSE, NoAction)>>),
      NotJson }

CoreResponses ==
    {[api_error |-> TRUE, text |-> Bare(NotJson)]}
    \cup {[api_error |-> FALSE, text |-> Bare(b)] : b \in CoreBodies}
    \cup {[api_error |-> FALSE, text |-> Fenced(b)] :
             b \in {JsonArray(Ok(<<ReadFile, NextReason>>)),
                    JsonArray(Ok(<<ReadFile, WriteFile>>))}}
    \cup {[api_error |-> FALSE,
           text |-> HalfFenced(JsonArray(Ok(<<ReadFile, NextReason>>)))]}

\* The list a well-formed response carries, read off the response itself.
WellFormed(resp) ==
    /\ ~ resp.api_error
    /\ \E b \in CoreBodies :
          /\ resp.text \in {Bare(b), Fenced(b)}
          /\ b.json
          /\ \A i \in 1..Len(b.items) : b.items[i].valid

Carried(resp) ==
    LET b == IF Len(resp.text) = 1 THEN resp.text[1] ELSE resp.text[2]
    IN  [i \in 1..Len(b.items) |-> b.items[i].action]

\* ---- ActionHandler.handle_action and AgentCore.run
\* handle_action of a REASON action: the quota first, then the task key,
\* then one call of the adapter; a non-empty answer that does not end with
\* a REASON action gets the handled action appended.
handle_reason(action, llm_output) ==
    IF llm_output # <<>> /\ Last(llm_output).type # "REASON"
    THEN Append(llm_output, action)
    ELSE llm_output

NoResponse == [api_error |-> TRUE, text |-> Bare(NotJson)]

InitRmFiles ==
    {NoFile}
    \cup {yaml_safe_dump([daily_reasoning_count |-> c, last_run_date |-> d]) :
             c \in 0..MaxReasoningSteps,
             d \in {NoDate, Date(0), Date(1), DateStr(0), BadStr}}
    \cup {yaml_safe_dump([daily_reasoning_count |-> c]) :
             c \in {0, MaxReasoningSteps}}

InitMmFiles ==
    { JsonDump(<<>>),
      JsonDump(<<Action("REASON", [task |-> StartingTask])>>),
      JsonDump(<<ReadFile, Action("REASON", [task |-> StartingTask])>>) }

\* ---- the cycle-based agent of core/agent_core.py
\* An action string is a type and a content; the content of a SLUMBER is
\* text that int() does or does not accept.
ActionString(type, content) == [type |-> type, content |-> content]

IntText(n) == [kind |-> "int", val |-> n]

OtherText == [kind |-> "text", val |-> 0]

NoPlan == ActionString("NONE", OtherText)

\* int(content): the integer, or ValueError.
ParseInt(content) ==
    IF content.kind = "int" THEN [ok |-> TRUE, val |-> content.val]
    ELSE [ok |-> FALSE, val |-> 0]

Max(a, b) == IF a >= b THEN a ELSE b

ScionAgent_init ==
    [cycle_count |-> 0, is_slumbering |-> FALSE, slumber_until_cycle |-> 0]

\* ActionHandler.execute_action: of the action types only SLUMBER changes
\* the agent's cycle state, and only when its content is an integer.
ActionHandler_execute_action(agent, action_string) ==
    IF action_string.type = "SLUMBER"
    THEN LET r == ParseInt(action_string.content)
         IN  IF r.ok
             THEN [agent EXCEPT
                     !.is_slumbering = TRUE,
                     !.slumber_until_cycle = agent.cycle_count + Max(1, r.val)]
             ELSE agent
    ELSE agent

\* The slumber check of run_cycle waking one cycle late.
ScionAgent_slumber_check_late(agent) ==
    IF agent.is_slumbering
    THEN IF agent.cycle_count <= agent.slumber_until_cycle
         THEN [skip |-> TRUE, agent |-> agent]
         ELSE [skip |-> FALSE, agent |-> [agent EXCEPT !.is_slumbering = FALSE]]
    ELSE [skip |-> FALSE, agent |-> agent]

\* The slumber check of run_cycle: return early while the cycle number is
\* below slumber_until_cycle, clear the flag otherwise.
ScionAgent_slumber_check(agent) ==
    IF agent.is_slumbering
    THEN IF agent.cycle_count < agent.slumber_until_cycle
         THEN [skip |-> TRUE, agent |-> agent]
         ELSE [skip |-> FALSE, agent |-> [agent EXCEPT !.is_slumbering = FALSE]]
    ELSE [skip |-> FALSE, agent |-> agent]

\* ScionAgent.run_cycle, given what the reasoning call of this cycle would
\* answer: count the cycle, check for slumber, then observe, reason, act.
ScionAgent_run_cycle(agent, planned_action) ==
    LET c == ScionAgent_slumber_check(
                 [agent EXCEPT !.cycle_count = agent.cycle_count + 1])
    IN  IF c.skip THEN [kind |-> "skip", agent |-> c.agent]
        ELSE [kind |-> "full",
              agent |-> ActionHandler_execute_action(c.agent, planned_action)]

\* What the reasoning call can answer: a SLUMBER with an integer or with
\* other text, another action, or the text of a failed call.
PlannedActions ==
    { ActionString("SLUMBER", IntText(n)) : n \in -1..3 }
    \cup { ActionString("SLUMBER", OtherText),
           ActionString("READ_FILE", OtherText),
           ActionString("Reasoning Failed", OtherText) }

CycleParked ==
    /\ y_agent = ScionAgent_init
    /\ y_planned = NoPlan
    /\ y_kind = "none"
    /\ y_reasons = 0
    /\ y_acts = 0
    /\ y_from = 0
    /\ y_n = 0

\* ---- Gemini._build_context_prompt of core/brain/reason.py
\* The Reason action as the prompt builder reads it: the task and the two
\* request lists, which the builder uses for membership tests only.
PromptFiles == {"f1", "f2"}

PromptLabels == {"l1", "l2"}

ReasonRequest(task, files_to_send, thoughts_to_send) ==
    [task |-> task, files_to_send |-> files_to_send,
     thoughts_to_send |-> thoughts_to_send]

NoRequest == ReasonRequest("", {}, {})

Selected(queue, files, scratch) ==
    [action_queue |-> queue, file_contents |-> files, thoughts |-> scratch]

\* What a builder that raised leaves: no prompt.
NoPrompt == [raised |-> TRUE, task |-> "", memory |-> Selected(<<>>, <<>>, <<>>)]

\* json.dumps of the selected memory: the action queue is a list of
\* pydantic objects, which json cannot serialise (TypeError) unless the
\* list is empty; dictionaries of strings are written key by key.
json_dumps(selected) ==
    IF selected.action_queue # <<>>
    THEN [raised |-> TRUE, text |-> Selected(<<>>, <<>>, <<>>)]
    ELSE [raised |-> FALSE, text |-> selected]

\* _build_context_prompt sending the content of every tracked file.
Gemini_build_context_prompt_all_files(mem, current_action) ==
    IF \E k \in current_action.thoughts_to_send : k \notin DOMAIN mem.thoughts
    THEN NoPrompt
    ELSE LET selected_memory ==
                 Selected(mem.action_queue, mem.file_contents,
                          [k \in current_action.thoughts_to_send |->
                              mem.thoughts[k]])
             memory_content == json_dumps(selected_memory)
         IN  IF memory_content.raised THEN NoPrompt
             ELSE [raised |-> FALSE, task |-> current_action.task,
                   memory |-> memory_content.text]

\* _build_context_prompt: every tracked path is a key of file_contents,
\* with its content when the path is in files_to_send and the empty
\* string otherwise; thoughts holds get_thought(k) for every label of
\* thoughts_to_send, a KeyError when memory has no such label. The
\* counters, the todo list, the logs and the timestamp, which the two
\* memories of a comparison share, are left out of the record.
Gemini_build_context_prompt(mem, current_action) ==
    IF \E k \in current_action.thoughts_to_send : k \notin DOMAIN mem.thoughts
    THEN NoPrompt
    ELSE LET selected_memory ==
                 Selected(mem.action_queue,
                          [k \in DOMAIN mem.file_contents |->
                              IF k \in current_action.files_to_send
                              THEN mem.file_contents[k] ELSE ""],
                          [k \in current_action.thoughts_to_send |->
                              mem.thoughts[k]])
             memory_content == json_dumps(selected_memory)
         IN  IF memory_content.raised THEN NoPrompt
             ELSE [raised |-> FALSE, task |-> current_action.task,
                   memory |-> memory_content.text]

\* The memories a prompt is built over.
PromptMems ==
    { Selected(q, fc, th) :
        q \in {<<>>, <<NoOpAction>>},
        fc \in [PromptFiles -> {"a", "b"}],
        th \in UNION { [D -> {"x", "y"}] : D \in SUBSET PromptLabels } }

PromptRequests ==
    { ReasonRequest("t1", fs, ls) :
        fs \in SUBSET PromptFiles, ls \in SUBSET PromptLabels }

PromptParked ==
    /\ p_mem1 = Selected(<<>>, <<>>, <<>>)
    /\ p_mem2 = Selected(<<>>, <<>>, <<>>)
    /\ p_act = NoRequest
    /\ p_out1 = NoPrompt
    /\ p_out2 = NoPrompt
    /\ p_built = FALSE

\* A file action, the content of no file, and what a handler that only
\* logs leaves as its observation.
NoContent == <<>>

FileAction(type, file_path, contents, use_thought) ==
    [type |-> type, file_path |-> file_path, contents |-> contents,
     use_thought |-> use_thought]

NoFileAction == FileAction("NONE", <<>>, NoContent, "")

Logged == [kind |-> "logged", target |-> <<>>, content |-> NoContent]

FilesParked ==
    /\ f_pc = "parked"
    /\ f_path = <<>>
    /\ f_safe = FALSE
    /\ f_act = NoFileAction
    /\ f_disk = EmptyDict
    /\ f_cache = EmptyDict
    /\ f_raised = FALSE
    /\ f_obs = Logged
    /\ f_touched = FALSE
    /\ f_steps = 0

\* No action handed to the dispatcher directly.
DispatchParked ==
    /\ d_mem = [action_queue |-> <<>>, todo |-> <<>>, thoughts |-> <<>>]
    /\ d_act = NoneAction
    /\ d_raised = FALSE
    /\ d_log = "none"
    /\ d_tool = ""
    /\ d_steps = 0

LoopParked ==
    /\ pc = "done"
    /\ run_state = "TERMINATED"
    /\ exit_reason = "none"
    /\ action_queue = <<>>
    /\ todo = <<>>
    /\ counters = 0
    /\ thoughts = <<>>
    /\ mem_file = MemDump(<<>>, <<>>, 0, <<>>)
    /\ cur = NoneAction
    /\ active_task = StartingTask
    /\ next_id = 1
    /\ last_new = <<>>
    /\ last_pop_id = 0
    /\ n_pops = 0
    /\ n_dispatch = 0

CoreDown ==
    /\ rm_resources = EmptyDict
    /\ rm_last_run_date = NoDate
    /\ mm_action_queue = <<>>
    /\ tm_queue = <<>>
    /\ tm_aliased = TRUE
    /\ c_pc = "down"
    /\ c_cur = NoAction
    /\ ri_calls = 0
    /\ ri_last_arg = NoAction
    /\ c_last_resp = NoResponse
    /\ c_quota_stop = FALSE
    /\ rm_steps = 0
    /\ ri_event = "none"
    /\ c_pops = 0
    /\ c_handled = 0

CoreParked ==
    /\ today = 0
    /\ rm_file = NoFile
    /\ mm_file = JsonDump(<<>>)
    /\ rm_boot = [file |-> NoFile, today |-> 0, count |-> 0]
    /\ CoreDown

Init ==
    /\ InitLoop
    /\ CoreParked
    /\ FilesParked
    /\ DispatchParked
    /\ PromptParked
    /\ CycleParked

Spec == Init /\ [][Next]_vars

\* The loop is one sequential thread: whenever it has a next step, the
\* step is taken (every call it makes returns or raises).
SpecLive == Spec /\ WF_vars(Next)

InitCore ==
    /\ LoopParked
    /\ CycleParked
    /\ PromptParked
    /\ FilesParked
    /\ DispatchParked
    /\ today = 0
    /\ rm_file \in InitRmFiles
    /\ mm_file \in InitMmFiles
    /\ rm_boot = [file |-> NoFile, today |-> 0, count |-> 0]
    /\ CoreDown

\* The process starts: the managers are constructed from the files, and
\* run() seeds an empty queue with the starting Reason action.
CoreStart ==
    /\ c_pc = "down"
    /\ LET rm == ResourceManager_init(rm_file, today)
           t0 == TaskManager_init(mm_file)
           tm == IF t0.queue = <<>>
                 THEN TaskManager_add_action(
                          t0, Action("REASON", [task |-> StartingTask]))
                 ELSE t0
       IN  /\ rm_resources' = rm.resources
           /\ rm_last_run_date' = rm.last_run_date
           /\ rm_file' = rm.file
           /\ tm_queue' = tm.queue
           /\ mm_action_queue' = tm.memory
           /\ tm_aliased' = tm.aliased
           /\ mm_file' = tm.file
    /\ rm_boot' = [file |-> rm_file, today |-> today,
                   count |-> DictGet(ResourceManager_init(rm_file, today).resources,
                                     "daily_reasoning_count", 0)]
    /\ c_pc' = "loop"
    /\ c_cur' = NoAction
    /\ ri_calls' = 0
    /\ ri_last_arg' = NoAction
    /\ c_last_resp' = NoResponse
    /\ c_quota_stop' = FALSE
    /\ rm_steps' = 0
    /\ ri_event' = "none"
    /\ c_pops' = 0
    /\ c_handled' = 0
    /\ UNCHANGED today

TmState == [queue |-> tm_queue, memory |-> mm_action_queue,
            aliased |-> tm_aliased, file |-> mm_file]

RmState == [resources |-> rm_resources, last_run_date |-> rm_last_run_date,
            max_reasoning_steps |-> MaxReasoningSteps, file |-> rm_file]

\* One dequeue; None ends run().
CoreDequeue ==
    /\ c_pc = "loop"
    /\ LET r == TaskManager_dequeue_action(TmState)
       IN  /\ tm_queue' = r.st.queue
           /\ mm_action_queue' = r.st.memory
           /\ mm_file' = r.st.file
           /\ c_cur' = r.ret
           /\ c_pc' = IF r.ret = NoAction THEN "exited" ELSE "handle"
           /\ c_pops' = IF r.ret = NoAction THEN c_pops ELSE c_pops + 1
    /\ UNCHANGED <<today, rm_file, rm_resources, rm_last_run_date, tm_aliased,
                   ri_calls, ri_last_arg, c_last_resp, rm_boot, c_quota_stop,
                   rm_steps, ri_event, c_handled>>

\* handle_action of a Reason action, and the enqueueing of what it returns;
\* an exhausted quota is the hard stop of the loop.
CoreReason ==
    /\ c_pc = "handle"
    /\ c_cur.type = "REASON"
    /\ LET r == ResourceManager_record_reasoning_step(RmState)
       IN  /\ rm_resources' = r.st.resources
           /\ rm_file' = r.st.file
           /\ rm_steps' = IF r.ret THEN rm_steps + 1 ELSE rm_steps
           /\ IF ~ r.ret
              THEN /\ c_quota_stop' = TRUE
                   /\ c_pc' = "exited"
                   /\ UNCHANGED <<tm_queue, mm_action_queue, mm_file, ri_calls,
                                  ri_last_arg, c_last_resp, ri_event>>
              ELSE /\ c_quota_stop' = c_quota_stop
                   /\ c_pc' = "loop"
                   /\ IF "task" \notin DOMAIN c_cur.payload
                      THEN UNCHANGED <<tm_queue, mm_action_queue, mm_file,
                                       ri_calls, ri_last_arg, c_last_resp,
                                       ri_event>>
                      ELSE \E resp \in CoreResponses :
                             LET llm == ReasoningIntegration_get_next_actions(resp)
                                 new == handle_reason(c_cur, llm)
                                 tm  == TaskManager_add_actions(TmState, new)
                             IN  /\ c_last_resp' = resp
                                 /\ ri_event' = ReasoningIntegration_event(resp)
                                 /\ ri_calls' = ri_calls + 1
                                 /\ ri_last_arg' = c_cur
                                 /\ tm_queue' = tm.queue
                                 /\ mm_action_queue' = tm.memory
                                 /\ mm_file' = tm.file
    /\ c_handled' = c_handled + 1
    /\ UNCHANGED <<today, rm_last_run_date, tm_aliased, c_cur, rm_boot, c_pops>>

\* handle_action of any other action: it returns no new actions.
CoreWork ==
    /\ c_pc = "handle"
    /\ c_cur.type # "REASON"
    /\ c_pc' = "loop"
    /\ c_handled' = c_handled + 1
    /\ UNCHANGED <<today, rm_file, rm_resources, rm_last_run_date, mm_file,
                   mm_action_queue, tm_queue, tm_aliased, c_cur, ri_calls,
                   ri_last_arg, c_last_resp, rm_boot, c_quota_stop, rm_steps,
                   ri_event, c_pops>>

\* The process ends, by a crash or after run() returned; only the files
\* survive.
CoreStop ==
    /\ c_pc \in {"loop", "handle", "exited"}
    /\ c_pc' = "down"
    /\ rm_resources' = EmptyDict
    /\ rm_last_run_date' = NoDate
    /\ mm_action_queue' = <<>>
    /\ tm_queue' = <<>>
    /\ tm_aliased' = TRUE
    /\ c_cur' = NoAction
    /\ ri_calls' = 0
    /\ ri_last_arg' = NoAction
    /\ c_last_resp' = NoResponse
    /\ c_quota_stop' = FALSE
    /\ rm_steps' = 0
    /\ ri_event' = "none"
    /\ c_pops' = 0
    /\ c_handled' = 0
    /\ UNCHANGED <<today, rm_file, mm_file, rm_boot>>

\* Midnight passes, whether the process runs or not.
Tick ==
    /\ today < MaxDay
    /\ today' = today + 1
    /\ UNCHANGED <<rm_file, rm_resources, rm_last_run_date, mm_file,
                   mm_action_queue, tm_queue, tm_aliased, c_pc, c_cur,
                   ri_calls, ri_last_arg, c_last_resp, rm_boot, c_quota_stop,
                   rm_steps, ri_event, c_pops, c_handled>>

NextCore ==
    \/ (CoreStart /\ UNCHANGED <<loopVars, fileVars, dispatchVars, promptVars, cycleVars>>)
    \/ (CoreDequeue /\ UNCHANGED <<loopVars, fileVars, dispatchVars, promptVars, cycleVars>>)
    \/ (CoreReason /\ UNCHANGED <<loopVars, fileVars, dispatchVars, promptVars, cycleVars>>)
    \/ (CoreWork /\ UNCHANGED <<loopVars, fileVars, dispatchVars, promptVars, cycleVars>>)
    \/ (CoreStop /\ UNCHANGED <<loopVars, fileVars, dispatchVars, promptVars, cycleVars>>)
    \/ (Tick /\ UNCHANGED <<loopVars, fileVars, dispatchVars, promptVars, cycleVars>>)

SpecCore == InitCore /\ [][NextCore]_vars

\* ------------------------------------------------ paths and file actions
\* A path is a string, a sequence of characters: the separator, the dot,
\* and letters. The process runs in the directory /a; the workspace is the
\* directory w in it.

Sep == "/"

Dot == "."

PathChars == {Sep, Dot, "a", "w", "2", "x"}

Paths == UNION {[1..n -> PathChars] : n \in 0..MaxPathLen}

Cwd == <<Sep, "a">>

\* str.split('/'): the segments between the separators.
RECURSIVE Segments(_)
Segments(p) ==
    IF p = <<>> THEN << <<>> >>
    ELSE LET r == Segments(Front(p))
         IN  IF Last(p) = Sep THEN Append(r, <<>>)
             ELSE [r EXCEPT ![Len(r)] = Append(@, Last(p))]

\* os.path.normpath of an absolute path, over its segments: empty and "."
\* segments go, ".." removes the segment before it (none at the root).
RECURSIVE NormSegments(_)
NormSegments(segs) ==
    IF segs = <<>> THEN <<>>
    ELSE LET r == NormSegments(Front(segs))
             g == Last(segs)
         IN  IF g = <<>> \/ g = <<Dot>> THEN r
             ELSE IF g = <<Dot, Dot>>
                  THEN (IF r = <<>> THEN r ELSE Front(r))
                  ELSE Append(r, g)

RECURSIVE JoinSegments(_)
JoinSegments(segs) ==
    IF segs = <<>> THEN <<>>
    ELSE JoinSegments(Front(segs)) \o <<Sep>> \o Last(segs)

\* os.path.abspath: a relative path is joined to the working directory,
\* then the path is normalised.
abspath(p) ==
    LET full == IF p # <<>> /\ Head(p) = Sep THEN p ELSE Cwd \o <<Sep>> \o p
        segs == NormSegments(Segments(full))
    IN  IF segs = <<>> THEN <<Sep>> ELSE JoinSegments(segs)

\* str.startswith
startswith(s, prefix) ==
    Len(s) >= Len(prefix) /\ SubSeq(s, 1, Len(prefix)) = prefix

\* ResourceManager.workspace_dir
workspace_dir == abspath(<<"w">>)

\* ResourceManager.is_file_path_safe
is_file_path_safe(file_path) ==
    IF file_path = <<>> THEN FALSE
    ELSE startswith(abspath(file_path), workspace_dir)

\* The directories that exist: the root, the working directory and the
\* workspace. Opening, reading or removing one of them as a file fails.
KnownDirs == {<<Sep>>, Cwd, workspace_dir}

\* ---- the file handlers of core/execution/action_handler.py
\* A handler's outcome: the disk, the cache, whether it raised, whether it
\* called into the filesystem.

FileActionTypes == {"READ_FILE", "WRITE_FILE", "DELETE_FILE"}

Contents == {<<"c">>, <<" ", "c", " ">>}

\* Memory.thoughts of the run: one scratch label.
FileThoughts == [l1 |-> <<"t">>]

Outcome(disk, cache, raised, touched, obs) ==
    [disk |-> disk, cache |-> cache, raised |-> raised, touched |-> touched,
     obs |-> obs]

DictDel(d, key) == [k \in DOMAIN d \ {key} |-> d[k]]

\* _handle_read_file reading the file and not storing what it read.
handle_read_file_stale(action, disk, cache) ==
    LET file_path == abspath(action.file_path)
    IN  IF file_path = <<>> THEN Outcome(disk, cache, TRUE, FALSE, Logged)
        ELSE IF file_path \notin DOMAIN cache
        THEN Outcome(disk, cache, TRUE, FALSE, Logged)
        ELSE IF file_path \in KnownDirs \/ file_path \notin DOMAIN disk
        THEN Outcome(disk, cache, TRUE, TRUE, Logged)
        ELSE Outcome(disk, cache, FALSE, TRUE, Logged)

\* _handle_read_file
handle_read_file(action, disk, cache) ==
    LET file_path == abspath(action.file_path)
    IN  IF file_path = <<>> THEN Outcome(disk, cache, TRUE, FALSE, Logged)
        ELSE IF file_path \notin DOMAIN cache
        THEN Outcome(disk, cache, TRUE, FALSE, Logged)
        ELSE IF file_path \in KnownDirs \/ file_path \notin DOMAIN disk
        THEN Outcome(disk, cache, TRUE, TRUE, Logged)
        ELSE Outcome(disk, DictSet(cache, file_path, disk[file_path]),
                     FALSE, TRUE, Logged)

\* _handle_write_file
handle_write_file(action, disk, cache) ==
    LET file_path == abspath(action.file_path)
        contents  == action.contents
    IN  IF file_path = <<>> THEN Outcome(disk, cache, TRUE, FALSE, Logged)
        ELSE IF action.use_thought # ""
        THEN IF action.use_thought \notin DOMAIN FileThoughts
             THEN Outcome(disk, cache, TRUE, FALSE, Logged)
             ELSE IF file_path \in KnownDirs
             THEN Outcome(disk, cache, TRUE, TRUE, Logged)
             ELSE Outcome(DictSet(disk, file_path,
                                  FileThoughts[action.use_thought]),
                          DictSet(cache, file_path, contents),
                          FALSE, TRUE, Logged)
        ELSE IF file_path \in KnownDirs
        THEN Outcome(disk, cache, TRUE, TRUE, Logged)
        ELSE Outcome(DictSet(disk, file_path, contents),
                     DictSet(cache, file_path, contents),
                     FALSE, TRUE, Logged)

\* _handle_delete_file without the test that memory tracks the path.
handle_delete_file_untracked(action, disk, cache) ==
    LET file_path == abspath(action.file_path)
    IN  IF file_path = <<>> THEN Outcome(disk, cache, TRUE, FALSE, Logged)
        ELSE IF file_path \in KnownDirs
        THEN Outcome(disk, cache, TRUE, TRUE, Logged)
        ELSE Outcome(DictDel(disk, file_path), DictDel(cache, file_path),
                     FALSE, TRUE, Logged)

\* _handle_delete_file
handle_delete_file(action, disk, cache) ==
    LET file_path == abspath(action.file_path)
    IN  IF file_path = <<>> THEN Outcome(disk, cache, TRUE, FALSE, Logged)
        ELSE IF file_path \notin DOMAIN cache
        THEN Outcome(disk, cache, TRUE, FALSE, Logged)
        ELSE IF file_path \in KnownDirs
        THEN Outcome(disk, cache, TRUE, TRUE, Logged)
        ELSE Outcome(DictDel(disk, file_path), DictDel(cache, file_path),
                     FALSE, TRUE, Logged)

exec_file_action(action, disk, cache) ==
    IF action.type = "READ_FILE" THEN handle_read_file(action, disk, cache)
    ELSE IF action.type = "WRITE_FILE"
    THEN handle_write_file(action, disk, cache)
    ELSE handle_delete_file(action, disk, cache)

\* ---- the write branch of ActionHandler.execute_action of agent_core.py
\* str.strip over a content: the blanks at both ends go.
RECURSIVE lstrip(_)
lstrip(c) == IF c # <<>> /\ Head(c) = " " THEN lstrip(Tail(c)) ELSE c

RECURSIVE rstrip(_)
rstrip(c) == IF c # <<>> /\ Last(c) = " " THEN rstrip(Front(c)) ELSE c

strip(c) == rstrip(lstrip(c))

\* The names the review hook compares the path with: the goal file and
\* agent_core.py, here the file x of the working directory.
ProtectedNames == {<<"x">>}

\* The names _write_file refuses: .env and the container files.
CriticalNames == {<<Dot, "x">>}

Proposal(file_path, content) ==
    [kind |-> "proposal", target |-> file_path, content |-> content]

Refused == [kind |-> "error", target |-> <<>>, content |-> NoContent]

Written == [kind |-> "success", target |-> <<>>, content |-> NoContent]

\* _write_file of agent_core.py: open(file_path, 'w') relative to the
\* working directory; an empty name or a directory cannot be opened.
write_file_direct(file_path, content, disk, cache) ==
    IF file_path \in CriticalNames
    THEN Outcome(disk, cache, FALSE, FALSE, Refused)
    ELSE IF file_path = <<>> \/ Last(file_path) = Sep
              \/ abspath(file_path) \in KnownDirs
    THEN Outcome(disk, cache, FALSE, TRUE, Refused)
    ELSE Outcome(DictSet(disk, abspath(file_path), content), cache,
                 FALSE, TRUE, Written)

execute_write_action(action, disk, cache) ==
    LET file_path    == strip(action.file_path)
        file_content == strip(action.contents)
    IN  IF file_path \in ProtectedNames
        THEN Outcome(disk, cache, FALSE, FALSE,
                     Proposal(file_path, file_content))
        ELSE write_file_direct(file_path, file_content, disk, cache)

\* ---- runs of file actions

\* The file the path names may exist, and may be tracked by the cache.
\* A second file, on disk and tracked, that no path of Paths names.
OtherFile == Cwd \o <<Sep, "o">>

WithOther(d, other) ==
    IF other THEN DictSet(d, OtherFile, <<"z">>) ELSE d

\* os.path.relpath of a path below the working directory, joined with the
\* file name: the path without the working directory and its separator.
relpath(p) == SubSeq(p, Len(Cwd) + 2, Len(p))

\* scan_workspace(root_dir="."): every file below the working directory,
\* as a path relative to it. None of the files here bears an ignored name.
scan_workspace(disk) ==
    { relpath(p) : p \in { f \in DOMAIN disk : startswith(f, Cwd \o <<Sep>>) } }

\* Memory.__init__: an empty file_contents is seeded with the scanned
\* paths, each with the empty string.
Memory_init_file_contents(file_contents, disk) ==
    IF DOMAIN file_contents = {}
    THEN [path \in scan_workspace(disk) |-> NoContent]
    ELSE file_contents

InitFiles ==
    /\ LoopParked
    /\ CycleParked
    /\ PromptParked
    /\ CoreParked
    /\ DispatchParked
    /\ f_pc = "init"
    /\ f_path \in Paths
    /\ f_safe = FALSE
    /\ f_act = NoFileAction
    /\ \E on_disk \in BOOLEAN, tracked \in BOOLEAN, other \in BOOLEAN,
          held \in {<<"o">>, NoContent}, scanned \in BOOLEAN :
          /\ f_disk = WithOther(IF on_disk /\ abspath(f_path) \notin KnownDirs
                                THEN DictSet(EmptyDict, abspath(f_path), <<"o">>)
                                ELSE EmptyDict, other)
          /\ f_cache = IF scanned
                       THEN Memory_init_file_contents(EmptyDict, f_disk)
                       ELSE WithOther(IF tracked
                                      THEN DictSet(EmptyDict, abspath(f_path),
                                                   held)
                                      ELSE EmptyDict, other)
    /\ f_raised = FALSE
    /\ f_obs = Logged
    /\ f_touched = FALSE
    /\ f_steps = 0

\* The path check of the resource manager.
FileCheck ==
    /\ f_pc = "init"
    /\ f_safe' = is_file_path_safe(f_path)
    /\ f_pc' = "checked"
    /\ UNCHANGED <<f_path, f_act, f_disk, f_cache, f_raised, f_obs,
                   f_touched, f_steps>>

\* One file action on the path, through exec_action of
\* core/execution/action_handler.py.
FileExec ==
    /\ f_pc \in {"checked", "ran"}
    /\ f_steps < MaxFileSteps
    /\ \E type \in FileActionTypes, contents \in Contents,
          use_thought \in {"", "l1"} :
          LET action == FileAction(type, f_path, contents,
                                   IF type = "WRITE_FILE" THEN use_thought ELSE "")
              r == exec_file_action(action, f_disk, f_cache)
          IN  /\ (type # "WRITE_FILE" => use_thought = "" /\ contents = <<"c">>)
              /\ f_act' = [action EXCEPT !.type = type]
              /\ f_disk' = r.disk
              /\ f_cache' = r.cache
              /\ f_raised' = r.raised
              /\ f_obs' = r.obs
              /\ f_touched' = r.touched
    /\ f_pc' = "ran"
    /\ f_steps' = f_steps + 1
    /\ UNCHANGED <<f_path, f_safe>>

\* One write-type action on the path, through execute_action of
\* agent_core.py.
FileExecuteWrite ==
    /\ f_pc \in {"checked", "ran"}
    /\ f_steps < MaxFileSteps
    /\ \E type \in {"WRITE_FILE", "MODIFY_FILE", "GENERATE_FILE"},
          contents \in Contents :
          LET action == FileAction(type, f_path, contents, "")
              r == execute_write_action(action, f_disk, f_cache)
          IN  /\ f_act' = [action EXCEPT !.type = "REVIEWED_" \o type]
              /\ f_disk' = r.disk
              /\ f_cache' = r.cache
              /\ f_raised' = r.raised
              /\ f_obs' = r.obs
              /\ f_touched' = r.touched
    /\ f_pc' = "ran"
    /\ f_steps' = f_steps + 1
    /\ UNCHANGED <<f_path, f_safe>>

NextFiles ==
    \/ (FileCheck /\ UNCHANGED <<loopVars, coreVars, dispatchVars, promptVars, cycleVars>>)
    \/ (FileExec /\ UNCHANGED <<loopVars, coreVars, dispatchVars, promptVars, cycleVars>>)
    \/ (FileExecuteWrite /\ UNCHANGED <<loopVars, coreVars, dispatchVars, promptVars, cycleVars>>)

SpecFiles == InitFiles /\ [][NextFiles]_vars

\* --------------------------------------------- the dispatcher on its own
\* exec_action of core/execution/action_handler.py called on a Memory in
\* any state, with any action, the ones the loop never hands it included.

\* The actions handed to the dispatcher.
DirectActions ==
    { ReasonAction("t1"), TerminateAction, NoOpAction, SlumberAction,
      UpdateToDoAction("NONE", ""), UpdateToDoAction("REMOVE", ""),
      ThinkAction("l1", "x", FALSE), ThinkAction("l1", "y", FALSE),
      ThinkAction("l1", "", TRUE),
      BaseAction("READ_FILE"), BaseAction("WRITE_FILE"),
      BaseAction("DELETE_FILE") }
    \cup { UpdateToDoAction(op, item) : op \in {"APPEND", "INSERT"},
                                        item \in Tasks \cup {""} }
    \cup { RunToolAction("tools", c) : c \in ModuleAttrs \cup {"missing"} }
    \cup { RunToolAction("nomod", "T1") }

InitDispatch ==
    /\ LoopParked
    /\ CycleParked
    /\ PromptParked
    /\ CoreParked
    /\ FilesParked
    /\ \E q \in InitQueues, t \in InitTodos,
          th \in {<<>>, Memory_set_thought(<<>>, "l1", "x"),
                  Memory_set_thought(Memory_set_thought(<<>>, "l1", "x"),
                                     TOOL_OUTPUT_THOUGHT, "o1")} :
          d_mem = [action_queue |-> q, todo |-> t, thoughts |-> th]
    /\ d_act = NoneAction
    /\ d_raised = FALSE
    /\ d_log = "none"
    /\ d_tool = ""
    /\ d_steps = 0

\* One call of exec_action.
ExecDirect ==
    /\ d_steps < MaxDispatchSteps
    /\ \E a \in DirectActions :
          LET r == exec_action(a, d_mem.todo, d_mem.thoughts)
          IN  /\ d_act' = a
              /\ d_mem' = [d_mem EXCEPT !.todo = r.todo, !.thoughts = r.thoughts]
              /\ d_raised' = r.raised
              /\ d_log' = r.log
              /\ d_tool' = r.tool
    /\ d_steps' = d_steps + 1

NextDispatch ==
    \/ (ExecDirect /\ UNCHANGED <<loopVars, coreVars, fileVars, promptVars, cycleVars>>)

SpecDispatch == InitDispatch /\ [][NextDispatch]_vars

\* ------------------------------------------------- properties of Spec

C3_Fifo ==
    /\ \A i, j \in DOMAIN action_queue :
          (i < j /\ action_queue[i].via = "back" /\ action_queue[j].via = "back")
              => action_queue[i].id < action_queue[j].id
    /\ \A i \in DOMAIN action_queue :
          /\ action_queue[i].via = "back" => action_queue[i].id > last_pop_id
          /\ action_queue[i].via = "front" =>
                 Plain(action_queue[i]) = ReasonAction(DebugTask)
    /\ (pc = "dispatch" /\ cur.via = "back") => cur.id = last_pop_id

C3_Witness ==
    /\ pc = "dispatch"
    /\ n_pops >= 3
    /\ cur.via = "back"
    /\ Len(action_queue) >= 2
    /\ \A i \in DOMAIN action_queue : action_queue[i].via = "back"

\* C4: at the top of an iteration with an empty todo list and a non-empty
\* queue q, the queue becomes exactly <<Terminate, last(q)>>.
C4_TerminateRewrite ==
    [][ (pc = "top" /\ todo = <<>> /\ action_queue # <<>>)
          => PlainSeq(action_queue') =
                 <<TerminateAction, Plain(Last(action_queue))>> ]_vars

C4_Witness ==
    /\ pc = "pop"
    /\ todo = <<>>
    /\ Len(mem_file.action_queue) >= 3
    /\ PlainSeq(action_queue) =
           <<TerminateAction, Plain(Last(mem_file.action_queue))>>

\* C5: once Terminate is popped the loop is TERMINATED and nothing more is
\* popped or dispatched; and when run() has returned with an empty todo
\* list the queue holds exactly one action, the most recently queued one of
\* the queue the last iteration started with.
C5_TerminateEndsLoop ==
    /\ [](exit_reason = "terminate" => (pc = "done" /\ run_state = "TERMINATED"))
    /\ []((pc = "done" /\ todo = <<>>)
             => PlainSeq(action_queue) = <<Plain(Last(mem_file.action_queue))>>)
    /\ [][ run_state = "TERMINATED"
             => (run_state' = "TERMINATED" /\ n_pops' = n_pops
                 /\ n_dispatch' = n_dispatch) ]_vars

C5_Witness ==
    /\ pc = "done"
    /\ exit_reason = "terminate"
    /\ todo = <<>>
    /\ n_dispatch >= 2
    /\ Len(mem_file.action_queue) >= 2
    /\ PlainSeq(action_queue) = <<Plain(Last(mem_file.action_queue))>>

\* C7: when the reasoning adapter returns an empty list or a list that does
\* not end in a Reason action, the loop goes on RUNNING, a debug Reason
\* action is enqueued and the task of the Reason action being handled is
\* put at the front of the todo list.
BadContinuation(new) == new = <<>> \/ Last(new).type # "REASON"

C1_ReloadEqualsQueue ==
    c_pc \in {"loop", "handle", "exited"} => JsonLoad(mm_file) = tm_queue

\* The step of CoreReason in which the adapter is consulted: the quota is
\* not exhausted and the handled action carries a task.
Consulted ==
    /\ c_pc = "handle"
    /\ c_cur.type = "REASON"
    /\ "task" \in DOMAIN c_cur.payload
    /\ "daily_reasoning_count" \in DOMAIN rm_resources
    /\ rm_resources["daily_reasoning_count"] > 0
    /\ c_pc' = "loop"

\* C6: when the response to a Reason action is a non-empty list that does
\* not end with a Reason action, the queue receives the returned actions
\* in order followed by one extra Reason action carrying the task of the
\* handled action verbatim: n + 1 items for n returned actions.
C6_RequeuesOriginalReason ==
    [][ (/\ Consulted
         /\ WellFormed(c_last_resp')
         /\ Carried(c_last_resp') # <<>>
         /\ Last(Carried(c_last_resp')).type # "REASON")
        => (/\ tm_queue' = tm_queue \o Carried(c_last_resp')
                           \o <<Action("REASON", [task |-> c_cur.payload.task])>>
            /\ Len(tm_queue') = Len(tm_queue) + Len(Carried(c_last_resp')) + 1)
      ]_vars

C6_Witness ==
    /\ c_pc = "loop"
    /\ ri_calls >= 1
    /\ WellFormed(c_last_resp)
    /\ Carried(c_last_resp) = <<ReadFile, WriteFile>>
    /\ Len(tm_queue) >= 4
    /\ SubSeq(tm_queue, Len(tm_queue) - 2, Len(tm_queue))
         = <<ReadFile, WriteFile, ri_last_arg>>

\* C8: when the response to a Reason action ends with a Reason action, the
\* queue receives exactly the returned list, no extra Reason action is
\* added, and the adapter was invoked exactly once, with the handled
\* Reason action.
C8_QueuesExactlyResponse ==
    [][ (/\ Consulted
         /\ WellFormed(c_last_resp')
         /\ Carried(c_last_resp') # <<>>
         /\ Last(Carried(c_last_resp')).type = "REASON")
        => (/\ tm_queue' = tm_queue \o Carried(c_last_resp')
            /\ ri_calls' = ri_calls + 1
            /\ ri_last_arg' = c_cur)
      ]_vars

C8_Witness ==
    /\ c_pc = "loop"
    /\ ri_calls = 1
    /\ c_last_resp.text = Fenced(JsonArray(Ok(<<ReadFile, NextReason>>)))
    /\ tm_queue = <<ReadFile, NextReason>>
    /\ ri_last_arg = Action("REASON", [task |-> StartingTask])

StoredDate(file) ==
    IF file.exists /\ "last_run_date" \in DOMAIN file.doc
    THEN file.doc["last_run_date"].v
    ELSE NoDate

\* The date is later than the stored reset date, or no valid reset date
\* is stored.
Rollover(file, day) ==
    \/ StoredDate(file).kind \in {"none", "badstr"}
    \/ StoredDate(file).kind \in {"date", "str"} /\ StoredDate(file).day < day

\* C10: when the quota state is loaded on a date later than the stored
\* reset date, or with no or an invalid stored date, the remaining count
\* afterwards is the configured maximum, whatever it was before, in
\* memory and in the state file.
C10_ResetOnRollover ==
    [][ (c_pc = "down" /\ c_pc' = "loop" /\ Rollover(rm_file, today))
        => (/\ "daily_reasoning_count" \in DOMAIN rm_resources'
            /\ rm_resources'["daily_reasoning_count"] = MaxReasoningSteps
            /\ rm_file'.exists
            /\ rm_file'.doc["daily_reasoning_count"].v = MaxReasoningSteps)
      ]_vars

C10_Witness ==
    /\ c_pc = "loop"
    /\ rm_boot.file.exists
    /\ "daily_reasoning_count" \in DOMAIN rm_boot.file.doc
    /\ rm_boot.file.doc["daily_reasoning_count"].v = 0
    /\ StoredDate(rm_boot.file).kind = "date"
    /\ StoredDate(rm_boot.file).day < rm_boot.today
    /\ rm_boot.today = today
    /\ rm_resources["daily_reasoning_count"] = MaxReasoningSteps

\* The remaining count and the reset date the running tracker holds.
RemainingCount == DictGet(rm_resources, "daily_reasoning_count", 0)

HeldResetDate == DictGet(rm_resources, "last_run_date", NoDate)

\* A step of the running process that handles a Reason action.
ReasonStep ==
    /\ c_pc = "handle"
    /\ c_cur.type = "REASON"
    /\ c_pc' \in {"loop", "exited"}

\* C11, as claimed: the remaining count is reset to the maximum once the
\* date has advanced past the stored reset date, also when that happens
\* while the process keeps running, so a reasoning step asked for on a
\* later date than the reset date is counted against a full allowance;
\* and while the date has not advanced the count never increases.
C11_ResetWhenDateAdvances ==
    [][ /\ (ReasonStep /\ HeldResetDate.kind = "date"
                       /\ HeldResetDate.day < today)
           => (RemainingCount' = MaxReasoningSteps - 1 /\ c_pc' = "loop")
        /\ (c_pc \in {"loop", "handle"} /\ c_pc' # "down")
           => (RemainingCount' <= RemainingCount)
      ]_vars

\* C12: a tracker constructed on the stored reset date does not reset the
\* count: it holds, and its state file keeps, exactly the remaining count
\* the previous instance persisted.
C12_NoResetOnSameDay ==
    [][ (/\ c_pc = "down" /\ c_pc' = "loop"
         /\ StoredDate(rm_file).kind \in {"date", "str"}
         /\ StoredDate(rm_file).day = today
         /\ "daily_reasoning_count" \in DOMAIN rm_file.doc)
        => (/\ RemainingCount' = rm_file.doc["daily_reasoning_count"].v
            /\ rm_file'.doc["daily_reasoning_count"].v
                 = rm_file.doc["daily_reasoning_count"].v)
      ]_vars

C12_Witness ==
    /\ c_pc = "loop"
    /\ rm_boot.today = 1
    /\ today = 1
    /\ StoredDate(rm_boot.file) = Date(1)
    /\ rm_boot.file.doc["daily_reasoning_count"].v = 1
    /\ RemainingCount = 1
    /\ rm_steps = 0

WorkspaceSegments == << <<"a">>, <<"w">> >>

\* The directories and the name the path resolves to, from the root down.
ResolvedSegments(p) ==
    NormSegments(Segments(IF p # <<>> /\ Head(p) = Sep THEN p
                          ELSE Cwd \o <<Sep>> \o p))

\* The path resolves to the workspace root or to a descendant of it.
InWorkspaceTree(p) ==
    /\ Len(ResolvedSegments(p)) >= Len(WorkspaceSegments)
    /\ SubSeq(ResolvedSegments(p), 1, Len(WorkspaceSegments)) = WorkspaceSegments

\* A step that executes a file action.
FileStep == f_steps' = f_steps + 1

\* C14, as claimed: is_file_path_safe(p) is true exactly when p is not
\* empty and resolves to the workspace root or a descendant of it.
C14_SafeIffInWorkspaceTree ==
    f_pc \in {"checked", "ran"}
        => (f_safe <=> (f_path # <<>> /\ InWorkspaceTree(f_path)))

\* C15, as claimed: a ReadFile, WriteFile or DeleteFile action whose
\* target resolves outside the workspace touches neither the filesystem
\* nor the file cache, raises nothing, and leaves the rejection as an
\* error observation.
C15_OutsideWorkspaceRejected ==
    [][ (FileStep /\ f_act'.type \in FileActionTypes
                  /\ ~ InWorkspaceTree(f_path))
        => (/\ ~ f_touched'
            /\ f_disk' = f_disk
            /\ f_cache' = f_cache
            /\ ~ f_raised'
            /\ f_obs'.kind = "error")
      ]_vars

\* The files the protected names denote.
ProtectedFiles == {abspath(n) : n \in ProtectedNames}

\* C16, as claimed: a write-type action on a protected target, under
\* whichever handler, leaves the disk as it was and yields a proposal
\* holding the target path and the proposed content in full.
C16_ProtectedWriteIsProposal ==
    [][ (FileStep /\ f_act'.type \in {"WRITE_FILE", "REVIEWED_WRITE_FILE",
                                      "REVIEWED_MODIFY_FILE",
                                      "REVIEWED_GENERATE_FILE"}
                  /\ abspath(f_path) \in ProtectedFiles)
        => (/\ f_disk' = f_disk
            /\ f_obs' = Proposal(f_path, f_act'.contents))
      ]_vars

\* C17, as claimed: after a WriteFile action on an unprotected path has
\* completed, the cache entry of the path equals the content on disk,
\* with the content given directly and with the content taken from a
\* scratch label.
C17_CacheEqualsDiskAfterWrite ==
    [][ (FileStep /\ f_act'.type = "WRITE_FILE" /\ ~ f_raised'
                  /\ abspath(f_path) \notin ProtectedFiles)
        => (/\ abspath(f_path) \in DOMAIN f_cache'
            /\ abspath(f_path) \in DOMAIN f_disk'
            /\ f_cache'[abspath(f_path)] = f_disk'[abspath(f_path)])
      ]_vars

\* ------------------------------------------------------------------
\* Claims about the dispatcher, under SpecDispatch.

\* A step that dispatches one action.
DispatchStep == d_steps' = d_steps + 1

\* C18: an action whose type has no handler is logged as an error and
\* dropped: nothing is raised and the memory, the queue in it included, is
\* as it was; an action whose type has a handler is not reported as
\* unknown.
C18_UnknownLoggedAndDropped ==
    [][ DispatchStep
        => /\ d_act'.type \notin Handled
                => (d_log' = "error" /\ ~ d_raised' /\ d_mem' = d_mem)
           /\ d_act'.type \in Handled => d_log' # "error"
      ]_vars

\* An action without a handler was dispatched on a memory that holds
\* todo items and queued actions.
C18_Witness ==
    /\ d_steps > 0
    /\ d_act.type \in {"REASON", "TERMINATE"}
    /\ d_log = "error"
    /\ d_mem.todo # <<>>
    /\ d_mem.action_queue # <<>>

\* C19: UpdateTodo with INSERT puts the item first, with APPEND puts it
\* last, with REMOVE on a list that has items drops the first one; the
\* other items stay as they were, in order.
C19_UpdateTodoSemantics ==
    [][ (DispatchStep /\ d_act'.type = "UPDATE_TODO")
        => /\ d_act'.todo_type = "INSERT"
                => (/\ d_mem'.todo # <<>>
                    /\ Head(d_mem'.todo) = d_act'.todo_item
                    /\ Tail(d_mem'.todo) = d_mem.todo)
           /\ d_act'.todo_type = "APPEND"
                => (/\ d_mem'.todo # <<>>
                    /\ Last(d_mem'.todo) = d_act'.todo_item
                    /\ Front(d_mem'.todo) = d_mem.todo)
           /\ (d_act'.todo_type = "REMOVE" /\ d_mem.todo # <<>>)
                => (~ d_raised' /\ d_mem'.todo = Tail(d_mem.todo))
      ]_vars

\* A REMOVE took the first of two different items and left the second.
C19_Witness ==
    /\ d_act.type = "UPDATE_TODO"
    /\ d_act.todo_type = "REMOVE"
    /\ ~ d_raised
    /\ d_steps = 1
    /\ d_mem.todo = <<"t2">>

\* C20: REMOVE dispatched on an empty todo list raises, and the list is
\* still empty afterwards.
C20_RemoveOnEmptyRaises ==
    [][ (DispatchStep /\ d_act'.type = "UPDATE_TODO"
                      /\ d_act'.todo_type = "REMOVE" /\ d_mem.todo = <<>>)
        => (d_raised' /\ d_mem'.todo = <<>>)
      ]_vars

\* A REMOVE was dispatched on an empty list and raised.
C20_Witness ==
    /\ d_act.type = "UPDATE_TODO"
    /\ d_act.todo_type = "REMOVE"
    /\ d_raised
    /\ d_mem.todo = <<>>

\* C21, as claimed: the todo list never holds an empty string, whatever
\* UpdateTodo actions were dispatched.
C21_NoEmptyTodoItem ==
    \A i \in DOMAIN d_mem.todo : d_mem.todo[i] # ""

\* ------------------------------------------------------------------
\* Claims about the loop, under Spec.

\* What the dispatcher makes of the action in hand.
Dispatched == exec_action(cur, todo, thoughts)

\* C22: when the handler of the dispatched action raises, the loop goes on
\* RUNNING, the debug Reason action enters the queue at the front and the
\* task being worked on is put at the front of the todo list.
C22_HandlerExceptionRecovered ==
    [][ (pc = "dispatch" /\ cur.type # "REASON" /\ Dispatched.raised
         /\ n_dispatch' = n_dispatch + 1)
          => /\ pc' = "top"
             /\ run_state' = "RUNNING"
             /\ exit_reason' = "none"
             /\ todo' = <<active_task>> \o todo
             /\ action_queue' = <<DebugAction(next_id)>> \o action_queue
      ]_vars

\* A Think delete of a label that is not there was dispatched with actions
\* still queued, and the loop is back at the top with the recovery done.
C22_Witness ==
    /\ pc = "top"
    /\ run_state = "RUNNING"
    /\ cur.type = "THINK"
    /\ cur.delete
    /\ thoughts = <<>>
    /\ Len(action_queue) >= 2
    /\ Head(action_queue) = DebugAction(next_id - 1)
    /\ todo # <<>>
    /\ Head(todo) = active_task

\* ------------------------------------------------------------------
\* Claims about the reasoning adapter of the manager-based loop, under
\* SpecCore.

\* C23, as claimed: when the call to the reasoning service fails, the
\* adapter answers with a pause action followed by the Reason action in
\* hand, so that is what the queue receives.
C23_TransportErrorRetried ==
    [][ (Consulted /\ c_last_resp'.api_error)
        => (/\ Len(tm_queue') = Len(tm_queue) + 2
            /\ tm_queue'[Len(tm_queue) + 1].type = "SLUMBER"
            /\ Last(tm_queue') = c_cur)
      ]_vars

\* The body of a response text, and the three kinds of unusable response,
\* read off the response itself.
Body(resp) == IF Len(resp.text) = 1 THEN resp.text[1] ELSE resp.text[2]

IsJson(resp) ==
    /\ \/ Len(resp.text) = 1
       \/ (Len(resp.text) = 3 /\ Head(resp.text) = JsonFence
                               /\ Last(resp.text) = Fence)
    /\ Body(resp).json

Malformed(resp) == ~ resp.api_error /\ ~ IsJson(resp)

SchemaInvalid(resp) ==
    /\ ~ resp.api_error
    /\ IsJson(resp)
    /\ \E i \in 1..Len(Body(resp).items) : ~ Body(resp).items[i].valid

EmptyList(resp) ==
    ~ resp.api_error /\ IsJson(resp) /\ Body(resp).items = <<>>

\* C24, as claimed: for a response that is not JSON, that fails
\* validation or that is empty, get_next_actions returns the empty list,
\* so nothing is enqueued, and records an error event.
C24_BadResponseEmptyAndRecorded ==
    [][ (Consulted /\ (\/ Malformed(c_last_resp')
                       \/ SchemaInvalid(c_last_resp')
                       \/ EmptyList(c_last_resp')))
        => (/\ ri_calls' = ri_calls + 1
            /\ tm_queue' = tm_queue
            /\ ri_event' # "none")
      ]_vars

\* ------------------------------------------------------------------
\* Claims about RunTool, under SpecDispatch.

\* The scratch labels other than the tool-output label, with their texts.
OtherThoughts(th) == [l \in DOMAIN th \ {TOOL_OUTPUT_THOUGHT} |-> th[l]]

\* C25: after a RunTool action that did not raise, the tool-output label
\* holds the string the tool returned, whatever it held before, and every
\* other label, the todo list and the queue are as they were.
C25_ToolOutputStored ==
    [][ (DispatchStep /\ d_act'.type = "RUN_TOOL" /\ ~ d_raised')
        => (/\ d_tool' = d_act'.tool_class
            /\ d_tool' \in DOMAIN ToolOutputs
            /\ TOOL_OUTPUT_THOUGHT \in DOMAIN d_mem'.thoughts
            /\ d_mem'.thoughts[TOOL_OUTPUT_THOUGHT] = ToolOutputs[d_tool']
            /\ OtherThoughts(d_mem'.thoughts) = OtherThoughts(d_mem.thoughts)
            /\ d_mem'.todo = d_mem.todo
            /\ d_mem'.action_queue = d_mem.action_queue)
      ]_vars

\* The second tool ran on a memory that held another label and the output
\* of an earlier run; its output replaced the earlier one.
C25_Witness ==
    /\ d_steps = 1
    /\ d_act = RunToolAction("tools", "T2")
    /\ ~ d_raised
    /\ DOMAIN d_mem.thoughts = {"l1", TOOL_OUTPUT_THOUGHT}
    /\ d_mem.thoughts[TOOL_OUTPUT_THOUGHT] = "o2"
    /\ d_mem.thoughts["l1"] = "x"

\* A RunTool action whose module or tool class does not resolve to a Tool.
Unresolved(a) ==
    \/ a.module \notin ToolModules
    \/ a.tool_class \notin ModuleAttrs
    \/ a.tool_class \in {"Other", "value", "nothing"}

\* C26: a RunTool action whose module or tool class does not resolve
\* instantiates and runs no tool and leaves the memory, the tool-output
\* label included, as it was; the handler raises, which the loop catches.
C26_UnresolvedToolLeavesMemory ==
    [][ (DispatchStep /\ d_act'.type = "RUN_TOOL" /\ Unresolved(d_act'))
        => (/\ d_tool' = ""
            /\ d_mem' = d_mem
            /\ d_raised')
      ]_vars

\* A class that is no Tool was asked for while the tool-output label held
\* the output of an earlier run.
C26_Witness ==
    /\ d_steps = 1
    /\ d_act = RunToolAction("tools", "Other")
    /\ d_raised
    /\ d_tool = ""
    /\ TOOL_OUTPUT_THOUGHT \in DOMAIN d_mem.thoughts
    /\ d_mem.thoughts[TOOL_OUTPUT_THOUGHT] = "o1"

\* ------------------------------------------------------------------
\* Claims about tracked paths, under SpecFiles.

\* C27: a ReadFile or DeleteFile action on a path that is no key of the
\* file-content mapping is rejected, by raising, before the filesystem
\* is touched; the disk and the mapping are as they were.
C27_UntrackedPathRejected ==
    [][ (FileStep /\ f_act'.type \in {"READ_FILE", "DELETE_FILE"}
                  /\ abspath(f_path) \notin DOMAIN f_cache)
        => (/\ f_raised'
            /\ ~ f_touched'
            /\ f_disk' = f_disk
            /\ f_cache' = f_cache)
      ]_vars

\* A DeleteFile action met a file that is on disk and not tracked; the
\* file is still there.
C27_Witness ==
    /\ f_pc = "ran"
    /\ f_act.type = "DELETE_FILE"
    /\ f_raised
    /\ ~ f_touched
    /\ f_cache = EmptyDict
    /\ abspath(f_path) \in DOMAIN f_disk

\* ---- the cycle-based agent: the endless loop of run_cycle calls
InitCycle ==
    /\ CoreParked
    /\ FilesParked
    /\ DispatchParked
    /\ PromptParked
    /\ LoopParked
    /\ y_agent = ScionAgent_init
    /\ y_planned = NoPlan
    /\ y_kind = "none"
    /\ y_reasons = 0
    /\ y_acts = 0
    /\ y_from = 0
    /\ y_n = 0

RunCycle ==
    /\ y_agent.cycle_count < MaxCycles
    /\ \E planned_action \in PlannedActions :
          LET r == ScionAgent_run_cycle(y_agent, planned_action)
              slept == /\ r.kind = "full"
                       /\ planned_action.type = "SLUMBER"
                       /\ ParseInt(planned_action.content).ok
          IN  /\ y_agent' = r.agent
              /\ y_kind' = r.kind
              /\ y_planned' = IF r.kind = "full" THEN planned_action
                              ELSE y_planned
              /\ y_reasons' = IF r.kind = "full" THEN y_reasons + 1
                              ELSE y_reasons
              /\ y_acts' = IF r.kind = "full" THEN y_acts + 1 ELSE y_acts
              /\ y_from' = IF slept THEN y_agent.cycle_count + 1 ELSE y_from
              /\ y_n' = IF slept
                        THEN Max(1, ParseInt(planned_action.content).val)
                        ELSE y_n

NextCycle ==
    \/ (RunCycle /\ UNCHANGED <<loopVars, coreVars, fileVars, dispatchVars,
                                promptVars>>)

SpecCycle == InitCycle /\ [][NextCycle]_vars

\* ---- the prompt builder called for one Reason action over two memories
InitPrompt ==
    /\ LoopParked
    /\ CycleParked
    /\ CoreParked
    /\ FilesParked
    /\ DispatchParked
    /\ p_mem1 \in PromptMems
    /\ p_mem2 \in PromptMems
    /\ p_act = NoRequest
    /\ p_out1 = NoPrompt
    /\ p_out2 = NoPrompt
    /\ p_built = FALSE

BuildPrompt ==
    /\ ~ p_built
    /\ \E a \in PromptRequests :
          /\ p_act' = a
          /\ p_out1' = Gemini_build_context_prompt(p_mem1, a)
          /\ p_out2' = Gemini_build_context_prompt(p_mem2, a)
    /\ p_built' = TRUE
    /\ UNCHANGED <<p_mem1, p_mem2>>

NextPrompt ==
    \/ (BuildPrompt /\ UNCHANGED <<loopVars, coreVars, fileVars, dispatchVars, cycleVars>>)

SpecPrompt == InitPrompt /\ [][NextPrompt]_vars

\* ------------------------------------------------------------------
\* Claims about construction, under SpecCore.

\* C28, as claimed: construction over an empty persisted queue gives the
\* queue of one Reason action with the starting task, construction over a
\* non-empty one gives that queue unchanged, and in both cases the queue
\* the task manager works on is the one memory holds and persists.
C28_ConstructedQueueIsPersistedOne ==
    [][ (c_pc = "down" /\ c_pc' = "loop")
        => (/\ tm_queue' = IF JsonLoad(mm_file) = <<>>
                           THEN <<Action("REASON", [task |-> StartingTask])>>
                           ELSE JsonLoad(mm_file)
            /\ mm_action_queue' = tm_queue'
            /\ JsonLoad(mm_file') = tm_queue')
      ]_vars

\* ------------------------------------------------------------------
\* Claims about the log and the order of the loop.

\* C29, as claimed: every action handed to the dispatcher leaves one line
\* in the log, whatever its type and whatever the op of an UpdateTodo.
C29_OneLogLinePerAction ==
    [][ DispatchStep => d_log' # "none" ]_vars

\* C30: the loop handles one action at a time. Each dequeued action is
\* handed to handle_action once, and that call has returned before the
\* next dequeue; when the dequeue returns nothing the loop exits and hands
\* on nothing more.
C30_OneActionAtATime ==
    /\ [](c_pc = "handle" => c_pops = c_handled + 1)
    /\ [](c_pc \in {"loop", "exited"} => c_pops = c_handled)
    /\ [][ c_pops' = c_pops + 1
            => (c_pc = "loop" /\ tm_queue # <<>> /\ c_cur' = Head(tm_queue)) ]_vars
    /\ [][ c_handled' = c_handled + 1 => (c_pc = "handle" /\ c_cur' = c_cur) ]_vars
    /\ [][ (c_pc = "loop" /\ tm_queue = <<>> /\ c_pc' \notin {"loop", "down"})
            => (c_pc' = "exited" /\ c_handled' = c_handled
                                /\ c_pops' = c_pops) ]_vars
    /\ [][ c_pc = "exited" => c_pc' \in {"exited", "down"} ]_vars

\* The queue ran empty after three actions were dequeued and handled, and
\* the loop exited.
C30_Witness ==
    /\ c_pc = "exited"
    /\ ~ c_quota_stop
    /\ c_cur = NoAction
    /\ c_pops >= 3
    /\ c_handled = c_pops

\* C31: UpdateTodo is the only action that resizes the todo list: a dispatch
\* of any other action (Think, ReadFile, WriteFile, DeleteFile, RunTool, NoOp,
\* the pause action, and the types without a handler) leaves the todo list
\* exactly as it was, whether the handler returns or raises.
C31_OnlyUpdateTodoResizes ==
    [][ (DispatchStep /\ d_act'.type # "UPDATE_TODO")
        => d_mem'.todo = d_mem.todo ]_vars

\* A Think was dispatched against a memory whose todo list has items.
C31_Witness ==
    /\ d_steps > 0
    /\ d_act.type = "THINK"
    /\ ~d_raised
    /\ d_mem.todo # <<>>

C33_ThinkSemantics ==
    [][ (DispatchStep /\ d_act'.type = "THINK")
        => LET th  == d_mem.thoughts
               th2 == d_mem'.thoughts
               l   == d_act'.label
           IN  IF ~ d_act'.delete
               THEN /\ ~ d_raised'
                    /\ DOMAIN th2 = DOMAIN th \cup {l}
                    /\ th2[l] = d_act'.thought
                    /\ \A k \in DOMAIN th \ {l} : th2[k] = th[k]
               ELSE IF l \in DOMAIN th
               THEN /\ ~ d_raised'
                    /\ DOMAIN th2 = DOMAIN th \ {l}
                    /\ \A k \in DOMAIN th2 : th2[k] = th[k]
               ELSE /\ d_raised'
                    /\ th2 = th ]_vars

\* A Think has deleted its label and another label is still there.
C33_Witness ==
    /\ d_steps > 0
    /\ d_act.type = "THINK"
    /\ d_act.delete
    /\ ~ d_raised
    /\ d_act.label \notin DOMAIN d_mem.thoughts
    /\ DOMAIN d_mem.thoughts # {}

\* C34: after a ReadFile of a tracked path that returns, the file-content
\* mapping holds for that path exactly what is on disk; after a DeleteFile
\* of a tracked path that returns, the file is not on disk and the path is
\* not a key of the mapping; in both cases no other path's entry changes,
\* in the mapping or on disk.
C34_ReadAndDeleteOfTrackedPath ==
    [][ (FileStep /\ f_act'.type \in {"READ_FILE", "DELETE_FILE"}
                  /\ abspath(f_path) \in DOMAIN f_cache /\ ~ f_raised')
        => LET p == abspath(f_path)
           IN  /\ IF f_act'.type = "READ_FILE"
                  THEN /\ p \in DOMAIN f_disk
                       /\ DOMAIN f_cache' = DOMAIN f_cache
                       /\ f_cache'[p] = f_disk[p]
                       /\ f_disk' = f_disk
                  ELSE /\ p \notin DOMAIN f_disk'
                       /\ DOMAIN f_disk' = DOMAIN f_disk \ {p}
                       /\ DOMAIN f_cache' = DOMAIN f_cache \ {p}
               /\ \A k \in DOMAIN f_cache' \ {p} : f_cache'[k] = f_cache[k]
               /\ \A k \in DOMAIN f_disk' \ {p} : f_disk'[k] = f_disk[k]
      ]_vars

\* A ReadFile has replaced what the mapping held for its path by the disk
\* content, and the other tracked file is as it was.
C34_Witness ==
    /\ f_pc = "ran"
    /\ f_act.type = "READ_FILE"
    /\ ~ f_raised
    /\ abspath(f_path) \in DOMAIN f_cache
    /\ f_cache[abspath(f_path)] = <<"o">>
    /\ OtherFile \in DOMAIN f_cache
    /\ f_cache[OtherFile] = <<"z">>

\* ------------------------------------------------------------------
\* Claims about the context prompt, under SpecPrompt.

\* Two memories that differ only in what the action did not request: the
\* same queue, the same tracked paths, the same content for every path of
\* files_to_send and the same entry, or none, for every label of
\* thoughts_to_send.
DifferOnlyInUnrequested(m1, m2, a) ==
    /\ m1.action_queue = m2.action_queue
    /\ DOMAIN m1.file_contents = DOMAIN m2.file_contents
    /\ \A k \in a.files_to_send \cap DOMAIN m1.file_contents :
          m1.file_contents[k] = m2.file_contents[k]
    /\ \A l \in a.thoughts_to_send :
          /\ l \in DOMAIN m1.thoughts <=> l \in DOMAIN m2.thoughts
          /\ l \in DOMAIN m1.thoughts => m1.thoughts[l] = m2.thoughts[l]

\* C35: in the context payload built for a Reason action a file's content
\* appears only if its path is in files_to_send, a scratch entry appears
\* only if its label is in thoughts_to_send, and two memories that differ
\* only in unrequested file contents or unrequested scratch entries give
\* the same payload.
C35_PayloadOnlyRequested ==
    (p_built /\ ~ p_out1.raised)
    => /\ \A k \in DOMAIN p_out1.memory.file_contents :
             IF k \in p_act.files_to_send
             THEN p_out1.memory.file_contents[k] = p_mem1.file_contents[k]
             ELSE p_out1.memory.file_contents[k] = ""
       /\ DOMAIN p_out1.memory.thoughts = p_act.thoughts_to_send
       /\ \A l \in DOMAIN p_out1.memory.thoughts :
             p_out1.memory.thoughts[l] = p_mem1.thoughts[l]
       /\ DifferOnlyInUnrequested(p_mem1, p_mem2, p_act) => p_out2 = p_out1

\* Two prompts were built, for one requested file and one requested label,
\* over memories that differ in the other file and in the other label.
C35_Witness ==
    /\ p_built
    /\ ~ p_out1.raised
    /\ p_act.files_to_send = {"f1"}
    /\ p_act.thoughts_to_send = {"l1"}
    /\ DifferOnlyInUnrequested(p_mem1, p_mem2, p_act)
    /\ p_mem1.file_contents["f2"] # p_mem2.file_contents["f2"]
    /\ "l2" \in DOMAIN p_mem1.thoughts
    /\ "l2" \notin DOMAIN p_mem2.thoughts
    /\ p_out2 = p_out1

\* ------------------------------------------------------------------
\* Claims about the tracker's date, under SpecCore.

\* C36, as claimed: after a ResourceManager is constructed its
\* last_run_date attribute is the current date, when the construction
\* reset the count (stored date earlier than today, or none) and when it
\* did not (stored date is today).
C36_LastRunDateIsToday ==
    [][ (c_pc = "down" /\ c_pc' = "loop") => rm_last_run_date' = Date(today)
      ]_vars

\* ------------------------------------------------------------------
\* Claims about the cycle-based agent, under SpecCycle.

CycleStep == y_agent'.cycle_count = y_agent.cycle_count + 1

\* C37: after a SLUMBER with argument n has executed in cycle c, n taken
\* as at least 1, every run_cycle numbered below c+n makes no reasoning
\* call and executes no action, and the cycle numbered c+n clears the flag
\* and does a full cycle of observing, reasoning and acting; a SLUMBER
\* whose argument is not an integer leaves the agent not slumbering.
C37_SlumberSkipsCycles ==
    /\ [][ (CycleStep /\ y_from > 0 /\ y_agent'.cycle_count < y_from + y_n)
            => /\ y_kind' = "skip"
               /\ y_reasons' = y_reasons
               /\ y_acts' = y_acts
               /\ y_agent'.is_slumbering ]_vars
    /\ [][ (CycleStep /\ y_from > 0 /\ y_agent'.cycle_count = y_from + y_n)
            => /\ y_kind' = "full"
               /\ y_reasons' = y_reasons + 1
               /\ y_acts' = y_acts + 1
               /\ y_agent'.is_slumbering => y_from' = y_agent'.cycle_count
          ]_vars
    /\ [][ (CycleStep /\ y_kind' = "full"
                      /\ y_planned' = ActionString("SLUMBER", OtherText))
            => ~ y_agent'.is_slumbering ]_vars

\* A SLUMBER of three cycles ran in cycle 1, cycles 2 and 3 were skipped,
\* and cycle 4 was a full cycle that left the agent awake.
C37_Witness ==
    /\ y_from = 1
    /\ y_n = 3
    /\ y_agent.cycle_count = 4
    /\ y_kind = "full"
    /\ y_reasons = 2
    /\ ~ y_agent.is_slumbering

\* ------------------------------------------------------------------
\* Claims about termination, under SpecLive.

\* C38: the loop always eventually terminates, whatever the reasoning
\* service answers, also when every answer ends in a new Reason action and
\* when transient failures requeue the same Reason action: every handled
\* Reason action increments the step counter, so the ceiling is reached
\* after finitely many iterations and the loop reaches TERMINATED.
C38_LoopTerminates ==
    /\ [][ (pc = "dispatch" /\ cur.type = "REASON" /\ pc' # "dispatch")
            => counters' = counters + 1 ]_vars
    /\ [](counters <= MaxReasonSteps + 1)
    /\ <>(run_state = "TERMINATED")

\* The loop was stopped by the ceiling after a transient failure had
\* requeued the Reason action that was being handled.
C38_Witness ==
    /\ run_state = "TERMINATED"
    /\ exit_reason = "ceiling"
    /\ counters = MaxReasonSteps + 1
    /\ \E i \in 1..Len(action_queue) : action_queue[i].type = "SLUMBER"

\* ------------------------------------------------------------------
\* Claims about the continuation of the queue, under Spec.

\* C39: while the loop is RUNNING with a non-empty todo list, after every
\* handled Reason action the queue is not empty and its last element is a
\* Reason action, so the loop never finds the queue empty before a
\* Terminate has been pushed.
C39_QueueEndsWithReason ==
    /\ [][ (pc = "dispatch" /\ cur.type = "REASON" /\ pc' = "top"
                            /\ run_state' = "RUNNING" /\ todo' # <<>>)
            => /\ action_queue' # <<>>
               /\ Last(action_queue').type = "REASON" ]_vars
    /\ [](pc = "pop" => action_queue # <<>>)
    /\ [](exit_reason # "empty")

\* A Reason action was handled, its response was rejected and the debug
\* Reason action went to the front of a queue that still ends with the
\* Reason action queued before.
C39_Witness ==
    /\ pc = "top"
    /\ run_state = "RUNNING"
    /\ cur.type = "REASON"
    /\ todo # <<>>
    /\ Len(action_queue) >= 2
    /\ Head(action_queue).task = DebugTask
    /\ Last(action_queue).type = "REASON"
    /\ Last(action_queue).task # DebugTask

\* ------------------------------------------------------------------
\* Claims about the startup scan, under SpecFiles.

\* The file the action names is on disk and the startup scan registered
\* it: its scanned form is a key of the mapping.
RegisteredByScan ==
    /\ abspath(f_path) \in DOMAIN f_disk
    /\ startswith(abspath(f_path), Cwd \o <<Sep>>)
    /\ relpath(abspath(f_path)) \in DOMAIN f_cache

\* C40, as claimed: every path the startup scan registered in the
\* file-content mapping is accepted as tracked by ReadFile and DeleteFile
\* when an action names that same file; the key the scan stored and the
\* key the handlers look up are the same entry.
C40_ScannedPathIsTracked ==
    [][ (FileStep /\ f_act'.type \in {"READ_FILE", "DELETE_FILE"}
                  /\ RegisteredByScan)
        => (/\ ~ f_raised'
            /\ abspath(f_path) \in DOMAIN f_cache)
      ]_vars

====
